---- MODULE Spec2Model ----
(***************************************************************************)
(* Bridgy Fed, web.py / models.py: the webmention delivery task            *)
(* (webmention_task), target resolution (_activitypub_targets), the        *)
(* Object store and the Follower edges it reads and writes.                *)
(***************************************************************************)
EXTENDS Integers, Sequences, FiniteSets, TLC

(***************************************************************************)
(* Bounds of the model.                                                    *)
(***************************************************************************)
MaxRuns == 2      \* webmention tasks started in one behaviour
MaxClock == 2     \* distinct values util.now() takes
MaxVer == 2       \* distinct contents a source page takes, in the order it takes them

(***************************************************************************)
(* The world around the task.                                              *)
(***************************************************************************)
Workers == {"w1", "w2"}          \* task-queue handlers
Serial == {"w1"}                 \* the handler of a queue that runs one task at a time
Sources == {"home", "post"}      \* source URLs on the user's domain
Remotes == {"rb", "r1", "r2"}    \* foreign objects a source may reference
Blocklisted == {"rb"}            \* remotes on a blocklisted domain
FollowerActors == {"f1", "f2", "f3", "f4", "f5"}   \* ActivityPub actors that follow the user
ActiveAtInit == {"f2", "f5"}     \* those whose Follower edge is active at the start
TheUser == "user"                \* g.user, the Web user owning the domain

NoTime == 0                      \* an absent timestamp
SrcTime == -1                    \* an `updated` value the source page supplied

\* models.Object.STATUSES; None is the value of an unset status property
STATUSES == <<"new", "in progress", "complete", "failed", "ignored">>
None == "None"

\* as1 types whose content is wrapped in a Create or Update (web.py line 556)
WrappedTypes == {"note", "article", "comment"}

\* granary as1.VERBS_WITH_OBJECT, restricted to the verbs a page can carry
VERBS_WITH_OBJECT == {"follow", "like", "share"}

PageTypes == {"note", "comment", "like", "share", "follow"}

\* references (inReplyTo or object) that a page of each type carries
RefsOf(type) ==
    CASE type = "comment" -> <<"rb", "r1">>
      [] type = "like"    -> <<"rb">>
      [] type = "share"   -> <<"r2">>
      [] type = "follow"  -> <<"r1", "r2">>
      [] OTHER            -> <<>>

\* what a fetch of a source URL returns
Page(kind, type, ver, updated) ==
    [kind |-> kind, type |-> type, ver |-> ver, updated |-> updated]
GonePage == Page("gone", "none", 0, NoTime)       \* HTTP 404 or 410
ErrorPage == Page("error", "none", 0, NoTime)     \* any other HTTP error
NoMf2Page == Page("nomf2", "none", 0, NoTime)     \* fetched, no microformats2
OkPages(s, vers) ==
    IF s = "home"
    THEN {Page("ok", "person", v, NoTime) : v \in vers}
    ELSE {Page("ok", t, v, NoTime) : t \in PageTypes, v \in vers}
         \cup {Page("ok", "note", v, SrcTime) : v \in vers}

\* models.Target: StructuredProperty value (uri, protocol)
Target(uri) == [uri |-> uri, protocol |-> "activitypub"]

\* models.Object: type and ver/updated summarise the native payload and the
\* as1 derived from it; status and the three Target lists are as stored.
Object(type, ver, updated) ==
    [type |-> type, ver |-> ver, updated |-> updated, status |-> None,
     delivered |-> <<>>, undelivered |-> <<>>, failed |-> <<>>]
NoObject == Object("none", 0, NoTime)

VARIABLES
    store,       \* the datastore's Object entities: id -> Object
    followers,   \* the datastore's Follower entities: <<from, to>> -> Follower
    edges,       \* Follower entities in the order their ids were allocated, where
                 \* the calls that write them are followed entity by entity
    users,       \* the datastore's Web entities: domain -> User
    keys,        \* their key material (mod, exponents, p256_key): domain -> key
    calls,       \* per caller: the datastore call or request it has in flight
    queue,       \* the webmention task queue: the parameters of each task enqueued
    objects_cache,   \* protocol.objects_cache, process-wide: id -> Object
    now,         \* util.now()
    task,        \* per worker: the local state of its webmention_task run
    runs         \* tasks started so far

vars == <<store, followers, edges, users, keys, calls, queue, objects_cache, now, task, runs>>

\* Object ids: the source URL and the ids web.py synthesizes from it
SourceId(s) == <<s, "", NoTime>>

\* a Create id qualified by the time of processing, as the Update id is
CreateId_Timestamped(s) == <<s, "#bridgy-fed-create", now>>

CreateId(s) == <<s, "#bridgy-fed-create", NoTime>>
UpdateId(s, t) == <<s, "#bridgy-fed-update-", t>>
DeleteId(s) == <<s, "#bridgy-fed-delete", NoTime>>
ProfileUpdateId(s, t) == <<s, "#update-", t>>

\* ndb put of an Object entity
Put(st, id, obj) == [x \in DOMAIN st \cup {id} |-> IF x = id THEN obj ELSE st[x]]

\* Object.get_or_insert: the stored entity wins, else obj is stored
GetOrInsert(st, id, obj) == IF id \in DOMAIN st THEN st ELSE Put(st, id, obj)

\* Object.get_by_id
GetById(st, id) == IF id \in DOMAIN st THEN st[id] ELSE NoObject
Exists(st, id) == id \in DOMAIN st

(***************************************************************************)
(* Protocol.load(id, refresh=True) with Web.fetch: the stored Object, if   *)
(* any, keeps its status and Target lists (Object.clear wipes only the     *)
(* native payloads) and gets the fetched payload.                          *)
(***************************************************************************)
Payload(o) == <<o.type, o.ver, o.updated>>
LoadNew(st, s) == ~Exists(st, SourceId(s))
LoadChanged(st, s, page) ==
    Exists(st, SourceId(s)) /\ Payload(st[SourceId(s)]) # Payload(page)
Loaded(st, s, page) ==
    IF Exists(st, SourceId(s))
    THEN [st[SourceId(s)] EXCEPT !.type = page.type, !.ver = page.ver,
                                 !.updated = page.updated]
    ELSE Object(page.type, page.ver, page.updated)

\* a check that only asks whether a Create was ever stored
Published_AnyStatus(st, s) == Exists(st, CreateId(s))

\* lines 493-497: has Bridgy Fed successfully published s?
Published(st, s) == Exists(st, CreateId(s)) /\ st[CreateId(s)].status = "complete"

\* the delete activity of web.py lines 499-506
DeleteActivity == Object("delete", 0, NoTime)

\* the actor update activity of web.py lines 526-538
ProfileUpdate(obj, t) == Object("update", obj.ver, t)

\* User.is_web_url applied to an Object id
IsWebUrl(id) == id = SourceId("home")

\* the pages a fetch of s can return: the content last stored or the next one
Pages(st, s) ==
    LET ver == GetById(st, SourceId(s)).ver
    IN OkPages(s, {v \in {ver, ver + 1} : v \in 1..MaxVer})
       \cup {GonePage, ErrorPage, NoMf2Page}

(***************************************************************************)
(* _activitypub_targets                                                    *)
(***************************************************************************)
\* the inbox a remote object (or its actor) advertises
RemoteInbox(r) ==
    CASE r = "r2" -> "i2"
      [] r = "rb" -> "ib"
      [] OTHER    -> "i1"

\* the AS2 profile stored for each following actor
ActorProfile(f) ==
    CASE f = "f1" -> [sharedInbox |-> "", publicInbox |-> "", inbox |-> "i2"]
      [] f = "f2" -> [sharedInbox |-> "i3", publicInbox |-> "", inbox |-> "unused"]
      [] f = "f3" -> [sharedInbox |-> "i3", publicInbox |-> "", inbox |-> ""]
      [] f = "f4" -> [sharedInbox |-> "", publicInbox |-> "i4", inbox |-> "unused"]
      [] OTHER    -> [sharedInbox |-> "", publicInbox |-> "", inbox |-> ""]

\* the order in which Follower.query yields the edges
FollowerOrder == <<"f1", "f2", "f3", "f4", "f5">>

\* what ActivityPub.load of one explicit target can yield
FetchOutcomes == {"inbox", "html", "noinbox", "noactor", "error"}

\* one outcome per remote; a blocklisted remote, were it fetched, has an inbox
Fetches ==
    {[r \in Remotes |-> IF r \in Blocklisted THEN "inbox" ELSE f[r]] :
        f \in [Remotes \ Blocklisted -> FetchOutcomes]}

InReplyTo(obj) == IF obj.type = "comment" THEN RefsOf(obj.type) ELSE <<>>
Verb(obj) ==
    IF obj.type \in {"like", "share", "follow", "post", "update", "delete"}
    THEN obj.type ELSE None
ObjectRefs(obj) == IF obj.type \in {"like", "share", "follow"} THEN RefsOf(obj.type) ELSE <<>>

\* lines 684-690
Candidates(obj) ==
    IF InReplyTo(obj) # <<>> THEN InReplyTo(obj)
    ELSE IF Verb(obj) \in VERBS_WITH_OBJECT THEN ObjectRefs(obj)
    ELSE <<>>

\* common.remove_blocklisted
RemoveBlocklisted(refs) == SelectSeq(refs, LAMBDA r : r \notin Blocklisted)

\* a list of (inbox, target) pairs instead of a dict keyed by inbox
DictSet_Append(d, inbox, tgt) == Append(d, [uri |-> inbox, tgt |-> tgt])

\* inboxes_to_targets[inbox] = tgt on an insertion-ordered dict
DictSet(d, inbox, tgt) ==
    IF \E i \in 1..Len(d) : d[i].uri = inbox
    THEN [i \in 1..Len(d) |-> IF d[i].uri = inbox THEN [uri |-> inbox, tgt |-> tgt] ELSE d[i]]
    ELSE Append(d, [uri |-> inbox, tgt |-> tgt])

Resolution(err, inboxes, last) == [err |-> err, inboxes |-> inboxes, last |-> last]

\* a loop that re-raises every failed fetch of a target
GivesUp_Never(outcome) == FALSE

\* lines 700-706: of the fetches that raise, the one that got an HTML page with
\* an ok status is skipped
GivesUp(outcome) == outcome = "html"

\* lines 694-736: the loop over the explicit targets
RECURSIVE ResolveExplicit(_, _, _)
ResolveExplicit(refs, fr, acc) ==
    IF refs = <<>> \/ acc.err # "none" THEN acc
    ELSE LET r == Head(refs)
             step ==
                CASE fr[r] \in {"error", "html"} /\ ~GivesUp(fr[r]) ->
                                          Resolution("raise", acc.inboxes, acc.last)
                  [] fr[r] \in {"error", "html"} /\ GivesUp(fr[r]) -> acc
                  [] fr[r] = "noactor" -> Resolution("304", acc.inboxes, r)
                  [] fr[r] = "noinbox" -> Resolution("none", acc.inboxes, r)
                  [] OTHER -> Resolution("none", DictSet(acc.inboxes, RemoteInbox(r), r), r)
         IN ResolveExplicit(Tail(refs), fr, step)

\* a preference for the follower's own inbox over the shared ones
FollowerInbox_InboxFirst(f) ==
    LET p == ActorProfile(f)
    IN IF p.inbox # "" THEN p.inbox
       ELSE IF p.sharedInbox # "" THEN p.sharedInbox
       ELSE p.publicInbox

\* lines 745-748
FollowerInbox(f) ==
    LET p == ActorProfile(f)
    IN IF p.sharedInbox # "" THEN p.sharedInbox
       ELSE IF p.publicInbox # "" THEN p.publicInbox
       ELSE p.inbox

\* lines 738-755: the loop over the user's active followers
RECURSIVE FanOut(_, _, _, _)
FanOut(fs, order, acc, tgt) ==
    IF order = <<>> THEN acc
    ELSE LET f == Head(order)
             active == <<f, TheUser>> \in DOMAIN fs /\ fs[<<f, TheUser>>].status = "active"
             next == IF active /\ FollowerInbox(f) # ""
                     THEN DictSet(acc, FollowerInbox(f), tgt)
                     ELSE acc
         IN FanOut(fs, Tail(order), next, tgt)

\* a resolution that fetches every candidate, blocklisted or not
Filtered_Unfiltered(obj) == Candidates(obj)

\* line 692
Filtered(obj) == RemoveBlocklisted(Candidates(obj))

\* a resolution that treats a share like any other verb with an object
FansOut_OnlyWithoutTargets(obj, targets) == targets = <<>>

\* line 738
FansOut(obj, targets) == targets = <<>> \/ Verb(obj) = "share"

ActivitypubTargets(obj, fr, fs) ==
    LET targets == Filtered(obj)
        explicit == ResolveExplicit(targets, fr, Resolution("none", <<>>, None))
    IN IF explicit.err # "none" THEN explicit
       ELSE IF FansOut(obj, targets)
       THEN Resolution("none",
                FanOut(fs, FollowerOrder, explicit.inboxes,
                       IF Verb(obj) = "share" THEN explicit.last ELSE None),
                explicit.last)
       ELSE explicit

(***************************************************************************)
(* Follower.get_or_create(to=..., from_=..., **kwargs)                     *)
(***************************************************************************)
FollowerGetOrCreate(fs, from, to, follow) ==
    IF <<from, to>> \notin DOMAIN fs
    THEN [e \in DOMAIN fs \cup {<<from, to>>} |->
            IF e = <<from, to>> THEN [status |-> "active", follow |-> follow] ELSE fs[e]]
    ELSE [fs EXCEPT ![<<from, to>>].follow = follow]

(***************************************************************************)
(* webmention_task, lines 552-601: wrap a note, article or comment.        *)
(***************************************************************************)
\* a decision that resends unchanged content as a Create without being forced
EnvelopeDecision_ResendUnchanged(type, new, changed, force) ==
    IF type \in WrappedTypes
    THEN IF changed THEN "update" ELSE "create"
    ELSE "asis"

\* a decision that wraps every type, not only notes, articles and comments
EnvelopeDecision_WrapAll(type, new, changed, force) ==
    IF changed THEN "update"
    ELSE IF new \/ force THEN "create"
    ELSE "unchanged"

EnvelopeDecision(type, new, changed, force) ==
    IF type \in WrappedTypes
    THEN IF changed THEN "update"
         ELSE IF new \/ force THEN "create"
         ELSE "unchanged"
    ELSE "asis"

\* an inner object whose `updated` is always the processing time
InnerUpdated_AlwaysNow(obj, t) == t

\* lines 564-578: 'updated': updated comes first, **obj.as1 overrides it
InnerUpdated(obj, t) == IF obj.updated # NoTime THEN obj.updated ELSE t

UpdateActivity(obj, t) == Object("update", obj.ver, InnerUpdated(obj, t))
CreateActivity(obj) == Object("post", obj.ver, obj.updated)

\* a populate that resets the lists and leaves the status as it was
InProgress_StatusKept(obj, inboxes) ==
    [obj EXCEPT !.delivered = <<>>, !.failed = <<>>,
                !.undelivered = [i \in 1..Len(inboxes) |-> Target(inboxes[i].uri)]]

\* lines 606-613
InProgress(obj, inboxes) ==
    [obj EXCEPT !.status = "in progress", !.delivered = <<>>, !.failed = <<>>,
                !.undelivered = [i \in 1..Len(inboxes) |-> Target(inboxes[i].uri)]]

(***************************************************************************)
(* webmention_task, lines 616-662: the delivery loop.                      *)
(***************************************************************************)
\* list.remove: drops the first element equal to x
RECURSIVE Remove(_, _)
Remove(seq, x) ==
    IF seq = <<>> THEN <<>>
    ELSE IF Head(seq) = x THEN Tail(seq)
    ELSE <<Head(seq)>> \o Remove(Tail(seq), x)

\* what ActivityPub.send can do: return, raise an HTTP or connection error
\* that util.interpret_http_exception understands, raise anything else
SendOutcomes == {"ok", "http", "fatal"}

\* a loop that gives up at the first failed delivery
Propagates_AnyFailure(outcome) == outcome # "ok"

\* lines 647-650: the exceptions the loop re-raises
Propagates(outcome) == outcome = "fatal"

\* a loop that forgets line 656, obj.undelivered.remove(target)
AfterSend_NoRemove(obj, target, outcome) ==
    IF outcome = "ok"
    THEN [obj EXCEPT !.delivered = Append(@, target)]
    ELSE [obj EXCEPT !.failed = Append(@, target)]

\* lines 643-657, for an outcome that does not propagate
AfterSend(obj, target, outcome) ==
    LET moved == IF outcome = "ok"
                 THEN [obj EXCEPT !.delivered = Append(@, target)]
                 ELSE [obj EXCEPT !.failed = Append(@, target)]
    IN [moved EXCEPT !.undelivered = Remove(@, target)]

\* a status that counts any failed target as failure of the whole activity
FinalStatus_FailedFirst(obj) ==
    IF obj.failed # <<>> THEN "failed"
    ELSE IF obj.delivered # <<>> THEN "complete"
    ELSE "ignored"

\* lines 659-661
FinalStatus(obj) ==
    IF obj.delivered # <<>> THEN "complete"
    ELSE IF obj.failed # <<>> THEN "failed"
    ELSE "ignored"

(***************************************************************************)
(* Web users (models.py User, web.py Web), keyed by domain.                *)
(***************************************************************************)
\* the domains a request can name; Root is domain.removeprefix("www.")
Domains == {"user", "www.user", "www.www.user"}

\* web.py line 154: domain.startswith('www.')
IsWww(d) == d \in {"www.user", "www.www.user"}

\* web.py line 157
Root(d) ==
    IF d = "www.www.user" THEN "www.user"
    ELSE IF d = "www.user" THEN "user"
    ELSE d

\* models.py lines 87 and 93: a new entity has no use_instead, and direct
\* only if the caller passed it
User(direct) == [use_instead |-> None, direct |-> direct]

\* cls._get_by_id(id), line 124, and Key.get(), line 126
Entity(us, id) == IF id \in DOMAIN us THEN id ELSE None

\* models.py lines 121-128: the key of the entity returned, None if none
UserGetById(us, id) ==
    LET user == Entity(us, id) IN
    IF user # None /\ us[user].use_instead # None
    THEN Entity(us, us[user].use_instead)
    ELSE user

\* get_or_create with the caller's direct stored as passed on an existing user
UserGetOrCreate_OverwriteDirect(us, id, direct) ==
    LET user == UserGetById(us, id) IN
    IF user # None
    THEN [users |-> [us EXCEPT ![user].direct = direct], user |-> user]
    ELSE [users |-> [x \in DOMAIN us \cup {id} |->
                        IF x = id THEN User(direct) ELSE us[x]],
          user |-> id]

\* models.py lines 130-170, one transaction: the datastore afterwards and the
\* key of the user returned; direct is FALSE when the caller passes none
UserGetOrCreate(us, id, direct) ==
    LET user == UserGetById(us, id) IN
    IF user # None
    THEN [users |-> IF direct /\ ~us[user].direct
                    THEN [us EXCEPT ![user].direct = direct]
                    ELSE us,
          user |-> user]
    ELSE [users |-> [x \in DOMAIN us \cup {id} |->
                        IF x = id THEN User(direct) ELSE us[x]],
          user |-> id]

\* the key pairs RSA.generate and ECC.generate can return (models.py 151, 159)
KeyMaterial == {"k1", "k2"}

\* models.py lines 149-165: a user created gets the key material generated
\* for it, gen[id]; a user that exists keeps its own
NewKeys(ks, us, gen) ==
    [id \in DOMAIN us |-> IF id \in DOMAIN ks THEN ks[id] ELSE gen[id]]

\* a caller with nothing in flight
NoCall == [pc |-> "idle"]

\* what verify's requests for the root sites of the www domains find during
\* one sign-up: TRUE if the root site redirects to the www domain (web.py
\* lines 158-161). Requests follow redirects to the end, so a www domain that
\* is itself redirected onwards is nobody's final URL
Redirects ==
    {redir \in [{d \in Domains : IsWww(d)} -> BOOLEAN] :
        ~(redir["www.user"] /\ redir["www.www.user"])}

\* web.py lines 143-204, on the user with key self: the datastore afterwards
\* and the key of the user returned
RECURSIVE Verify(_, _, _)
Verify(us, self, redir) ==
    IF IsWww(self) /\ redir[self]
    THEN LET root == UserGetOrCreate(us, Root(self), FALSE)
             saved == [root.users EXCEPT ![self].use_instead = root.user]
         IN Verify(saved, root.user, redir)
    ELSE [users |-> us, user |-> self]

\* edges the user once had and ended: Follower entities with status inactive
Unfollowed == {<<TheUser, "r2">>}

Idle ==
    [pc |-> "idle", source |-> "home", force |-> FALSE, id |-> SourceId("home"),
     obj |-> NoObject, new |-> FALSE, changed |-> FALSE, wrap |-> "none",
     fetched |-> "none", targets |-> <<>>, attempts |-> <<>>, outs |-> <<>>,
     resp |-> "none", seen |-> << >>, retry |-> FALSE, first |-> "none",
     user |-> None]

Init ==
    /\ store = << >>
    /\ followers = [e \in {<<f, TheUser>> : f \in FollowerActors} \cup Unfollowed |->
                      [status |-> IF e[1] \in ActiveAtInit /\ e \notin Unfollowed
                                  THEN "active" ELSE "inactive",
                       follow |-> SourceId("home")]]
    /\ users = [d \in {TheUser} |-> User(TRUE)]
    /\ keys = [d \in {TheUser} |-> "k1"]
    /\ calls = [c \in Workers |-> NoCall]
    /\ queue = <<>>
    /\ objects_cache = << >>
    /\ edges = <<>>
    /\ now = 1
    /\ task = [w \in Workers |-> Idle]
    /\ runs = 0

(***************************************************************************)
(* The task, one action per stretch of webmention_task between datastore   *)
(* writes and outbound requests.                                           *)
(***************************************************************************)
Done(t, resp) == [t EXCEPT !.pc = "done", !.resp = resp]

\* lines 470-482, the entry of the handler for a source on domain d: g.user
\* is what get_by_id finds, and without a user the task ends with 304
Started(us, d, s) ==
    LET user == UserGetById(us, d)
        t == [Idle EXCEPT !.source = s, !.id = SourceId(s), !.user = user]
    IN IF user = None THEN Done(t, "304") ELSE [t EXCEPT !.pc = "load"]

\* the task queue invokes the handler for a source on domain d
StartOn(w, d, s) ==
    /\ task[w].pc \in {"idle", "done"}
    /\ runs < MaxRuns
    /\ runs' = runs + 1
    /\ task' = [task EXCEPT ![w] = Started(users, d, s)]
    /\ UNCHANGED <<objects_cache, queue, edges, users, keys, calls, store, followers, now>>

\* a webmention for a source on the user's own domain
Start(w, s) == StartOn(w, TheUser, s)

\* the task queue runs a task again, from scratch, when the handler raised:
\* first keeps the envelope decision of the run that was interrupted
Retry(w) ==
    /\ task[w].pc = "done"
    /\ task[w].resp = "raised"
    /\ runs < MaxRuns
    /\ runs' = runs + 1
    /\ task' = [task EXCEPT ![w] = [Idle EXCEPT !.pc = "load", !.source = task[w].source,
                                               !.id = SourceId(task[w].source),
                                               !.user = UserGetById(users, TheUser),
                                               !.retry = TRUE, !.first = task[w].wrap]]
    /\ UNCHANGED <<objects_cache, queue, edges, users, keys, calls, store, followers, now>>

\* lines 484-538: fetch the source, which serves page, or synthesize a delete;
\* lines 489-491: of the HTTP errors of the fetch, a 404 or a 410 is read as
\* a delete and every other one ends the task with 502
DeleteSignal_AnyHttpError(kind) == kind \in {"gone", "error"}

DeleteSignal(kind) == kind = "gone"

\* seen is what Protocol.load read from the datastore before it fetched
LoadOn(w, seen, page, time) ==
    LET t == [task[w] EXCEPT !.fetched = page.kind]
        s == t.source
        obj == Loaded(seen, s, page)
    IN
    /\ page \in Pages(seen, s)
    /\ time \in now..MaxClock
    /\ now' = IF page.kind = "ok" /\ IsWebUrl(SourceId(s)) THEN time ELSE now
    /\ time = now'
    /\ CASE page.kind = "nomf2" ->
              /\ task' = [task EXCEPT ![w] = Done(t, "304")]
              /\ UNCHANGED store
         [] page.kind \in {"gone", "error"} /\ ~DeleteSignal(page.kind) ->
              /\ task' = [task EXCEPT ![w] = Done(t, "502")]
              /\ UNCHANGED store
         [] page.kind \in {"gone", "error"} /\ DeleteSignal(page.kind) ->
              /\ UNCHANGED store
              /\ IF ~Published(store, s)
                 THEN task' = [task EXCEPT ![w] = Done(t, "304")]
                 ELSE task' = [task EXCEPT ![w] =
                          [t EXCEPT !.pc = "resolve", !.id = DeleteId(s),
                                    !.obj = DeleteActivity]]
         [] OTHER ->
              /\ store' = Put(store, SourceId(s), obj)
              /\ IF IsWebUrl(SourceId(s))
                 THEN task' = [task EXCEPT ![w] =
                          [t EXCEPT !.pc = "resolve", !.id = ProfileUpdateId(s, time),
                                    !.obj = ProfileUpdate(obj, time)]]
                 ELSE task' = [task EXCEPT ![w] =
                          [t EXCEPT !.pc = "resolve", !.obj = obj,
                                    !.new = LoadNew(seen, s),
                                    !.changed = LoadChanged(seen, s, page)]]
    /\ UNCHANGED <<objects_cache, queue, edges, users, keys, followers, runs>>

LoadWith(w, seen, page, time) ==
    /\ LoadOn(w, seen, page, time)
    /\ UNCHANGED calls

\* Protocol.load when no other task touches the source between its datastore
\* read and its put
Load(w, page, time) ==
    /\ task[w].pc = "load"
    /\ LoadWith(w, store, page, time)

\* Protocol.load in two steps, for tasks that overlap: the datastore read ...
Snapshot(st, s) ==
    IF Exists(st, SourceId(s)) THEN [x \in {SourceId(s)} |-> st[SourceId(s)]] ELSE << >>

Lookup(w) ==
    /\ task[w].pc = "load"
    /\ task' = [task EXCEPT ![w] = [task[w] EXCEPT !.pc = "fetch",
                                      !.seen = Snapshot(store, task[w].source)]]
    /\ UNCHANGED <<objects_cache, queue, edges, users, keys, calls, store, followers, now, runs>>

\* ... and, after the HTTP fetch, the rest of lines 484-538
Fetch(w, page, time) ==
    /\ task[w].pc = "fetch"
    /\ LoadWith(w, task[w].seen, page, time)

\* lines 540-550: resolve the targets, the fetches of the references answering
\* as fr says; none means 'ignored'
ResolveOn(w, fr) ==
    LET t == task[w]
        res == ActivitypubTargets(t.obj, fr, followers)
    IN
    /\ t.pc = "resolve"
    /\ IF res.err # "none"
       THEN /\ task' = [task EXCEPT ![w] = Done(t, res.err)]
            /\ UNCHANGED store
       ELSE IF res.inboxes = <<>>
       THEN /\ store' = Put(store, t.id, [t.obj EXCEPT !.status = "ignored"])
            /\ task' = [task EXCEPT ![w] =
                  Done([t EXCEPT !.obj.status = "ignored"], "No targets")]
       ELSE /\ task' = [task EXCEPT ![w] = [t EXCEPT !.pc = "wrap", !.targets = res.inboxes]]
            /\ UNCHANGED store
    /\ UNCHANGED <<objects_cache, queue, edges, users, keys, followers, now, runs>>

Resolve(w) ==
    /\ \E fr \in Fetches : ResolveOn(w, fr)
    /\ UNCHANGED calls

\* lines 552-613: wrap in a Create or Update where needed, enter 'in progress'
Wrap(w, force, time) ==
    LET t == [task[w] EXCEPT !.force = force]
        kind == EnvelopeDecision(t.obj.type, t.new, t.changed, force)
    IN
    /\ t.pc = "wrap"
    /\ force => t.obj.type \in WrappedTypes /\ ~t.new /\ ~t.changed
    /\ time \in now..MaxClock
    /\ now' = IF kind = "update" THEN time ELSE now
    /\ time = now'
    /\ CASE kind = "update" ->
              /\ store' = Put(store, t.id, t.obj)
              /\ task' = [task EXCEPT ![w] =
                    [t EXCEPT !.pc = "deliver", !.wrap = kind,
                              !.id = UpdateId(t.source, time),
                              !.obj = InProgress(UpdateActivity(t.obj, time), t.targets)]]
         [] kind = "create" ->
              /\ store' = Put(store, t.id, t.obj)
              /\ task' = [task EXCEPT ![w] =
                    [t EXCEPT !.pc = "deliver", !.wrap = kind,
                              !.id = CreateId(t.source),
                              !.obj = InProgress(CreateActivity(t.obj), t.targets)]]
         [] kind = "unchanged" ->
              /\ task' = [task EXCEPT ![w] = Done([t EXCEPT !.wrap = kind], "204")]
              /\ UNCHANGED store
         [] OTHER ->
              /\ task' = [task EXCEPT ![w] =
                    [t EXCEPT !.pc = "deliver", !.wrap = kind,
                              !.obj = InProgress(t.obj, t.targets)]]
              /\ UNCHANGED store
    /\ UNCHANGED <<objects_cache, queue, edges, users, keys, calls, followers, runs>>

\* a loop that leaves every write to the put after the loop
PutAfterAttempt_Deferred(st, id, obj) == st

\* line 657: obj.put() at the end of each iteration
PutAfterAttempt(st, id, obj) == Put(st, id, obj)

\* lines 616-657: one iteration of the loop over list(obj.undelivered)
Deliver(w) ==
    LET t == task[w]
        i == Len(t.attempts) + 1
    IN
    /\ t.pc = "deliver"
    /\ i <= Len(t.targets)
    /\ LET target == Target(t.targets[i].uri)
           dest == IF t.targets[i].tgt # None THEN t.targets[i].tgt
                   ELSE Head(ObjectRefs(t.obj))
           known == IF t.obj.type = "follow"
                    THEN GetOrInsert(store, SourceId(dest), Object("remote", 0, NoTime))
                    ELSE store
       IN
       /\ followers' = IF t.obj.type = "follow"
                       THEN FollowerGetOrCreate(followers, t.user, dest, t.id)
                       ELSE followers
       /\ \E outcome \in SendOutcomes :
            IF Propagates(outcome)
            THEN /\ task' = [task EXCEPT ![w] =
                       Done([t EXCEPT !.attempts = Append(@, target.uri),
                                      !.outs = Append(@, outcome)], "raised")]
                 /\ store' = known
            ELSE LET obj == AfterSend(t.obj, target, outcome) IN
                 /\ store' = PutAfterAttempt(known, t.id, obj)
                 /\ task' = [task EXCEPT ![w] =
                       [t EXCEPT !.obj = obj, !.attempts = Append(@, target.uri),
                                 !.outs = Append(@, outcome)]]
    /\ UNCHANGED <<objects_cache, queue, edges, users, keys, calls, now, runs>>

\* lines 659-672: the terminal status
Finish(w) ==
    LET t == task[w]
        obj == [t.obj EXCEPT !.status = FinalStatus(t.obj)]
    IN
    /\ t.pc = "deliver"
    /\ Len(t.attempts) = Len(t.targets)
    /\ store' = Put(store, t.id, obj)
    /\ task' = [task EXCEPT ![w] = [t EXCEPT !.pc = "done", !.obj = obj,
                      !.resp = IF obj.delivered # <<>> THEN "sent" ELSE "error"]]
    /\ UNCHANGED <<objects_cache, queue, edges, users, keys, calls, followers, now, runs>>

Next ==
    \/ \E w \in Serial, s \in Sources : Start(w, s)
    \/ \E w \in Serial : Retry(w)
    \/ \E w \in Serial : \E page \in Pages(store, task[w].source), t \in 1..MaxClock :
          Load(w, page, t)
    \/ \E w \in Serial : Resolve(w)
    \/ \E w \in Serial, force \in BOOLEAN, t \in 1..MaxClock : Wrap(w, force, t)
    \/ \E w \in Serial : Deliver(w)
    \/ \E w \in Serial : Finish(w)

Spec == Init /\ [][Next]_vars

(***************************************************************************)
(* Two tasks for the same source, enqueued together and handled by two     *)
(* workers at once: a note page, no force parameter.                       *)
(***************************************************************************)
ConcSource == "post"
ConcPages(seen) ==
    {p \in Pages(seen, ConcSource) : p.kind = "ok" /\ p.type = "note" /\ p.updated = NoTime}

\* one task per worker
StartOnce(w, s) ==
    /\ task[w].pc = "idle"
    /\ runs' = runs + 1
    /\ task' = [task EXCEPT ![w] = [Idle EXCEPT !.pc = "load", !.source = s,
                                               !.id = SourceId(s),
                                               !.user = UserGetById(users, TheUser)]]
    /\ UNCHANGED <<objects_cache, queue, edges, users, keys, calls, store, followers, now>>

NextConc ==
    \/ \E w \in Workers : StartOnce(w, ConcSource)
    \/ \E w \in Workers : Lookup(w)
    \/ \E w \in Workers : \E page \in ConcPages(task[w].seen), t \in 1..MaxClock :
          Fetch(w, page, t)
    \/ \E w \in Workers : Resolve(w)
    \/ \E w \in Workers, t \in 1..MaxClock : Wrap(w, FALSE, t)
    \/ \E w \in Workers : Deliver(w)
    \/ \E w \in Workers : Finish(w)

SpecConc == Init /\ [][NextConc]_vars

(***************************************************************************)
(* One task, against every combination of active and inactive followers.   *)
(***************************************************************************)
InitTargets ==
    /\ store = << >>
    /\ \E active \in SUBSET FollowerActors :
          followers = [e \in {<<f, TheUser>> : f \in FollowerActors} \cup Unfollowed |->
                         [status |-> IF e[1] \in active /\ e \notin Unfollowed
                                     THEN "active" ELSE "inactive",
                          follow |-> SourceId("home")]]
    /\ users = [d \in {TheUser} |-> User(TRUE)]
    /\ keys = [d \in {TheUser} |-> "k1"]
    /\ calls = [c \in Workers |-> NoCall]
    /\ queue = <<>>
    /\ objects_cache = << >>
    /\ edges = <<>>
    /\ now = 1
    /\ task = [w \in Workers |-> Idle]
    /\ runs = 0

NextTargets ==
    \/ \E w \in Serial, s \in Sources : StartOnce(w, s)
    \/ \E w \in Serial : \E page \in Pages(store, task[w].source), t \in 1..MaxClock :
          Load(w, page, t)
    \/ \E w \in Serial : Resolve(w)
    \/ \E w \in Serial, force \in BOOLEAN, t \in 1..MaxClock : Wrap(w, force, t)
    \/ \E w \in Serial : Deliver(w)
    \/ \E w \in Serial : Finish(w)

SpecTargets == InitTargets /\ [][NextTargets]_vars

(***************************************************************************)
(* One task for the user's page 'post', with what the fetches of its       *)
(* references answered kept next to the task.                              *)
(***************************************************************************)
\* the resolution of worker w's task, the answers of the fetches on record
ResolveSeen(w, fr) ==
    /\ ResolveOn(w, fr)
    /\ calls' = [calls EXCEPT ![w] = [pc |-> "fetched", fr |-> fr]]

NextResolve ==
    \/ \E w \in Serial : StartOnce(w, "post")
    \/ \E w \in Serial : \E page \in Pages(store, task[w].source), t \in 1..MaxClock :
          Load(w, page, t)
    \/ \E w \in Serial, fr \in Fetches : ResolveSeen(w, fr)
    \/ \E w \in Serial, t \in 1..MaxClock : Wrap(w, FALSE, t)
    \/ \E w \in Serial : Deliver(w)
    \/ \E w \in Serial : Finish(w)

SpecResolve == Init /\ [][NextResolve]_vars

(***************************************************************************)
(* One task for the user's page 'post', with the author the page names and *)
(* the author the activity made from it has kept next to the task.         *)
(***************************************************************************)
\* URLs after strip() and rstrip('/'), as urlparse splits them; a bare domain
\* is the URL with netloc and nothing else
Url(scheme, netloc, path) == [scheme |-> scheme, netloc |-> netloc, path |-> path]
NoAuthor == Url("", "", "")                  \* the page names no author URL
AuthorUrls ==
    {Url(s, n, p) : s \in {"https", "http", "", "ftp"}, n \in {"user", "eve"},
                    p \in {"", "/about"}}

\* Web.web_url(): https://{domain}/, and g.user.ap_actor(), the user's actor id
WebUrl(user) == Url("https", user, "")
ApActor(user) == Url("https", "fed", user)

\* User.is_web_url, models.py lines 254-275
UserIsWebUrl(user, url) ==
    /\ url # NoAuthor
    /\ url.scheme \in {"http", "https", ""}
    /\ \/ url = WebUrl(user)
       \/ url = Url("", WebUrl(user).netloc, "")
       \/ <<url.netloc, url.path>> = <<WebUrl(user).netloc, WebUrl(user).path>>

\* a task that leaves the author of the page as it is
AuthorOverride_Keep(user, author) == author

\* web.py lines 512-516: the first author URL, after the override
AuthorOverride(user, author) ==
    IF author # NoAuthor /\ ~UserIsWebUrl(user, author) THEN ApActor(user) ELSE author

\* lines 484-538 for a page that names author as its first author URL
LoadAuthored(w, page, time, author) ==
    /\ task[w].pc = "load"
    /\ page.kind # "ok" => author = NoAuthor
    /\ LoadOn(w, store, page, time)
    /\ calls' = [calls EXCEPT ![w] =
          [pc |-> "authored", given |-> author,
           author |-> IF page.kind = "ok" THEN AuthorOverride(task[w].user, author)
                      ELSE NoAuthor]]

NextAuthor ==
    \/ \E w \in Serial : StartOnce(w, "post")
    \/ \E w \in Serial : \E page \in Pages(store, task[w].source), t \in 1..MaxClock,
                             author \in AuthorUrls \cup {NoAuthor} :
          LoadAuthored(w, page, t, author)
    \/ \E w \in Serial : Resolve(w)
    \/ \E w \in Serial, t \in 1..MaxClock : Wrap(w, FALSE, t)
    \/ \E w \in Serial : Deliver(w)
    \/ \E w \in Serial : Finish(w)

SpecAuthor == Init /\ [][NextAuthor]_vars

(***************************************************************************)
(* Sign-ups, lookups and webmentions for a domain and its www aliases,     *)
(* starting from an empty datastore.                                       *)
(***************************************************************************)
InitUsers ==
    /\ store = << >>
    /\ followers = << >>
    /\ users = << >>
    /\ keys = << >>
    /\ calls = [c \in Workers |-> NoCall]
    /\ queue = <<>>
    /\ objects_cache = << >>
    /\ edges = <<>>
    /\ now = 1
    /\ task = [w \in Workers |-> Idle]
    /\ runs = 0

\* web.py lines 75-78: a caller gets or creates the Web user of a domain
GetOrCreate(d, direct) ==
    /\ users' = UserGetOrCreate(users, d, direct).users
    /\ \E gen \in [Domains -> KeyMaterial] : keys' = NewKeys(keys, users', gen)
    /\ UNCHANGED <<objects_cache, queue, edges, calls, store, followers, now, task, runs>>

\* web.py lines 393-412: the sign-up form is posted for domain d
CheckWebSite(d, redir) ==
    /\ LET created == UserGetOrCreate(users, d, TRUE) IN
       users' = Verify(created.users, created.user, redir).users
    /\ \E gen \in [Domains -> KeyMaterial] : keys' = NewKeys(keys, users', gen)
    /\ UNCHANGED <<objects_cache, queue, edges, calls, store, followers, now, task, runs>>

NextUsers ==
    \/ \E d \in Domains, direct \in BOOLEAN : GetOrCreate(d, direct)
    \/ \E d \in Domains, redir \in Redirects : CheckWebSite(d, redir)
    \/ \E w \in Serial, d \in Domains, s \in Sources : StartOn(w, d, s)

SpecUsers == InitUsers /\ [][NextUsers]_vars

(***************************************************************************)
(* Concurrent get_or_create calls for one domain. The function runs in a   *)
(* datastore transaction (models.py line 131): it reads a snapshot, and    *)
(* its writes are applied together at commit unless an entity it read was  *)
(* written in between, in which case the function is run again.            *)
(***************************************************************************)
\* the callers enter with a domain (models.py line 132)
Call(c, d, direct) ==
    /\ calls[c].pc \in {"idle", "returned"}
    /\ runs < MaxRuns
    /\ runs' = runs + 1
    /\ calls' = [calls EXCEPT ![c] = [pc |-> "begin", id |-> d, direct |-> direct,
                                     tries |-> 0]]
    /\ UNCHANGED <<objects_cache, queue, edges, users, keys, store, followers, now, task>>

\* lines 135-165 inside the transaction: the function body runs on the
\* snapshot and its puts are buffered; gen is the key material generated
Begin(c, gen) ==
    LET call == calls[c]
        got == UserGetOrCreate(users, call.id, call.direct)
    IN
    /\ call.pc = "begin"
    /\ calls' = [calls EXCEPT ![c] =
          [pc |-> "commit", id |-> call.id, direct |-> call.direct,
           tries |-> call.tries + 1,
           seen |-> [users |-> users, keys |-> keys],
           puts |-> [users |-> got.users, keys |-> NewKeys(keys, got.users, gen)],
           user |-> got.user]]
    /\ UNCHANGED <<objects_cache, queue, edges, users, keys, store, followers, now, task, runs>>

\* a transaction that never finds a conflict: its puts are plain writes
Conflict_Never(seen, us, ks, id) == FALSE

\* the commit fails if the entity the function read was written since
Conflict(seen, us, ks, id) ==
    \/ (id \in DOMAIN seen.users) # (id \in DOMAIN us)
    \/ /\ id \in DOMAIN seen.users
       /\ id \in DOMAIN us
       /\ \/ seen.users[id] # us[id]
          \/ seen.keys[id] # ks[id]

\* the entities the function put
Written(call) ==
    {id \in DOMAIN call.puts.users :
        \/ id \notin DOMAIN call.seen.users
        \/ call.puts.users[id] # call.seen.users[id]}

\* the commit: the buffered puts reach the datastore and the call returns
\* its user (lines 143 and 170), or the function is run again
Commit(c) ==
    LET call == calls[c] IN
    /\ call.pc = "commit"
    /\ IF Conflict(call.seen, users, keys, call.id)
       THEN /\ calls' = [calls EXCEPT ![c] =
                  [pc |-> "begin", id |-> call.id, direct |-> call.direct,
                   tries |-> call.tries]]
            /\ UNCHANGED <<users, keys>>
       ELSE /\ users' = [id \in DOMAIN users \cup Written(call) |->
                           IF id \in Written(call) THEN call.puts.users[id]
                           ELSE users[id]]
            /\ keys' = [id \in DOMAIN keys \cup Written(call) |->
                           IF id \in Written(call) THEN call.puts.keys[id]
                           ELSE keys[id]]
            /\ calls' = [calls EXCEPT ![c] =
                  [pc |-> "returned", id |-> call.id, direct |-> call.direct,
                   tries |-> call.tries,
                   user |-> call.user, key |-> call.puts.keys[call.user]]]
    /\ UNCHANGED <<objects_cache, queue, edges, store, followers, now, task, runs>>

NextCreate ==
    \/ \E c \in Workers, direct \in BOOLEAN : Call(c, TheUser, direct)
    \/ \E c \in Workers, gen \in [Domains -> KeyMaterial] : Begin(c, gen)
    \/ \E c \in Workers : Commit(c)

SpecCreate == InitUsers /\ [][NextCreate]_vars

(***************************************************************************)
(* Web ids as strings of characters: creation under ids that are and are   *)
(* not lower-case domains.                                                 *)
(***************************************************************************)
\* the ids callers ask for, each with the characters it is spelled with:
\* a.a, b.a and their upper-case spellings, ids without a dot or with
\* nothing after it, and ids with a character no domain has
Spelling ==
    [x \in {"a.a", "A.a", "A.A", "b.a", "B.a", "a", "A", "@a.a", "a@a", "a."} |->
       CASE x = "a.a"  -> <<"a", ".", "a">>
         [] x = "A.a"  -> <<"A", ".", "a">>
         [] x = "A.A"  -> <<"A", ".", "A">>
         [] x = "b.a"  -> <<"b", ".", "a">>
         [] x = "B.a"  -> <<"B", ".", "a">>
         [] x = "a"    -> <<"a">>
         [] x = "A"    -> <<"A">>
         [] x = "@a.a" -> <<"@", "a", ".", "a">>
         [] x = "a@a"  -> <<"a", "@", "a">>
         [] x = "a."   -> <<"a", ".">>]
Ids == DOMAIN Spelling

\* str.lower, character by character
LowerChar(ch) ==
    CASE ch = "A" -> "a"
      [] ch = "B" -> "b"
      [] OTHER    -> ch
Lower(id) ==
    LET low == [i \in 1..Len(Spelling[id]) |-> LowerChar(Spelling[id][i])]
    IN CHOOSE x \in Ids : Spelling[x] = low

\* re.match(common.DOMAIN_RE, id): one or more characters, a dot, one or
\* more characters, none of them a character a domain cannot hold
ValidDomain(id) ==
    LET chars == Spelling[id] IN
    \E i \in 2..(Len(chars) - 1) :
       /\ chars[i] = "."
       /\ \A j \in 1..Len(chars) : chars[j] # "@"

\* a put that validates nothing
PutAllowed_Any(id) == TRUE

\* web.py lines 70-72: the two assertions of Web.put
PutAllowed(id) == ValidDomain(id) /\ Lower(id) = id

\* web.py lines 75-78 with models.py lines 130-170: the id is lower-cased;
\* the put of a new user under an id that fails an assertion ends the call
\* with error() and the transaction writes nothing
WebGetOrCreate(us, id, direct) ==
    LET low == Lower(id)
        got == UserGetOrCreate(us, low, direct)
    IN
    IF got.user \notin DOMAIN us /\ ~PutAllowed(got.user)
    THEN [users |-> us, user |-> None, resp |-> "error", under |-> low]
    ELSE [users |-> got.users, user |-> got.user, resp |-> "ok", under |-> low]

\* a caller gets or creates the Web user of an id
CreateFor(c, id, direct) ==
    LET got == WebGetOrCreate(users, id, direct) IN
    /\ runs < MaxRuns
    /\ runs' = runs + 1
    /\ users' = got.users
    /\ \E k \in KeyMaterial : keys' = NewKeys(keys, users', [x \in DOMAIN users' |-> k])
    /\ calls' = [calls EXCEPT ![c] =
          [pc |-> "returned", op |-> "get_or_create", id |-> id,
           under |-> got.under, resp |-> got.resp, user |-> got.user]]
    /\ UNCHANGED <<objects_cache, queue, edges, store, followers, now, task>>

\* web.py lines 68-73: Web(id=id).put(), as a caller that builds the entity
\* itself does; a failed assertion is raised to it
PutFor(c, id) ==
    /\ runs < MaxRuns
    /\ runs' = runs + 1
    /\ IF PutAllowed(id)
       THEN /\ users' = [x \in DOMAIN users \cup {id} |->
                           IF x = id THEN User(FALSE) ELSE users[x]]
            /\ keys' = [x \in DOMAIN users' |->
                           IF x \in DOMAIN keys THEN keys[x] ELSE None]
       ELSE UNCHANGED <<users, keys>>
    /\ calls' = [calls EXCEPT ![c] =
          [pc |-> "returned", op |-> "put", id |-> id, under |-> id,
           resp |-> IF PutAllowed(id) THEN "ok" ELSE "error",
           user |-> IF PutAllowed(id) THEN id ELSE None]]
    /\ UNCHANGED <<objects_cache, queue, edges, store, followers, now, task>>

NextIds ==
    \/ \E c \in Serial, id \in Ids, direct \in BOOLEAN : CreateFor(c, id, direct)
    \/ \E c \in Serial, id \in Ids : PutFor(c, id)

SpecIds == InitUsers /\ [][NextIds]_vars

(***************************************************************************)
(* Follower entities (models.py lines 549-608). A Follower has an id the   *)
(* datastore allocates; from and to are properties of it.                  *)
(***************************************************************************)
\* users of the Fake protocol, Web users and ActivityPub users
FakeUsers == {"fake:a", "fake:b"}

\* Key.kind() of a user's key: Web._get_kind (web.py lines 57-59), else the
\* name of the class
Kind(u) ==
    IF u \in FakeUsers THEN "Fake"
    ELSE IF u \in Domains THEN "MagicKey"
    ELSE "ActivityPub"

\* the pairs get_or_create is called for
EdgePairs ==
    {<<"f1", "user">>, <<"user", "r1">>, <<"user", "www.user">>,
     <<"fake:a", "fake:b">>}

\* follow of a Follower created without one
NoFollow == <<"none", "", NoTime>>

\* the **kwargs a caller passes
Kwargs ==
    {[x \in {} |-> None], [status |-> "inactive"], [status |-> "active"],
     [follow |-> SourceId("post")]}

\* lines 554-561, with the defaults of the properties
Follower(from, to, updated) ==
    [from |-> from, to |-> to, status |-> "active", follow |-> NoFollow,
     updated |-> updated]

\* line 599 and lines 604-605: the properties named in kwargs are set
SetProps(f, kwargs) ==
    [f EXCEPT !.status = IF "status" \in DOMAIN kwargs THEN kwargs.status ELSE @,
              !.follow = IF "follow" \in DOMAIN kwargs THEN kwargs.follow ELSE @]

\* lines 595-597: the entities the query matches
Matching(es, from, to) == {i \in DOMAIN es : es[i].from = from /\ es[i].to = to}

\* a hook that lets every edge through
PrePutOk_Any(f) == TRUE

\* lines 568-573
PrePutOk(f) ==
    \/ Kind(f.from) = "Fake" /\ Kind(f.to) = "Fake"
    \/ Kind(f.from) # Kind(f.to)

\* line 601: the existing edge is put whenever kwargs were passed
Changes(f, kwargs) == DOMAIN kwargs # {}

\* lines 595-608 at time t (updated is auto_now): the entities afterwards,
\* the entity returned and whether the put raised
EdgeGetOrCreate(es, from, to, kwargs, t) ==
    LET found == Matching(es, from, to) IN
    IF found = {}
    THEN LET f == SetProps(Follower(from, to, t), kwargs) IN
         IF PrePutOk(f)
         THEN [edges |-> Append(es, f), id |-> Len(es) + 1, raised |-> FALSE]
         ELSE [edges |-> es, id |-> 0, raised |-> TRUE]
    ELSE LET i == CHOOSE x \in found : \A y \in found : x <= y IN
         IF Changes(es[i], kwargs)
         THEN [edges |-> [es EXCEPT ![i] = [SetProps(@, kwargs) EXCEPT !.updated = t]],
               id |-> i, raised |-> FALSE]
         ELSE [edges |-> es, id |-> i, raised |-> FALSE]

\* a caller gets or creates the edge of a pair
EdgeFor(c, pair, kwargs, t) ==
    LET got == EdgeGetOrCreate(edges, pair[1], pair[2], kwargs, t) IN
    /\ runs < MaxRuns
    /\ runs' = runs + 1
    /\ t >= now
    /\ now' = t
    /\ edges' = got.edges
    /\ calls' = [calls EXCEPT ![c] =
          [pc |-> "returned", op |-> "get_or_create", from |-> pair[1],
           to |-> pair[2], kwargs |-> kwargs, id |-> got.id,
           resp |-> IF got.raised THEN "raised" ELSE "ok"]]
    /\ UNCHANGED <<objects_cache, queue, store, followers, users, keys, task>>

\* web.py lines 635-637: the delivery of a follow of the ActivityPub actor r
FollowFor(c, r, t) ==
    EdgeFor(c, <<TheUser, r>>, [follow |-> SourceId("post")], t)

NextEdges ==
    \/ \E c \in Serial, pair \in EdgePairs, kwargs \in Kwargs, t \in 1..MaxClock :
          EdgeFor(c, pair, kwargs, t)
    \/ \E c \in Serial, r \in Remotes, t \in 1..MaxClock : FollowFor(c, r, t)

SpecEdges == InitUsers /\ [][NextEdges]_vars

(***************************************************************************)
(* Concurrent Follower.get_or_create calls for one pair, each in its       *)
(* transaction (models.py line 579): the query and the put commit together *)
(* unless what the query matches was written in between.                   *)
(***************************************************************************)
ConcPair == <<"f1", "user">>

EdgeCall(c, pair, kwargs) ==
    /\ calls[c].pc \in {"idle", "returned"}
    /\ runs < MaxRuns
    /\ runs' = runs + 1
    /\ calls' = [calls EXCEPT ![c] =
          [pc |-> "begin", from |-> pair[1], to |-> pair[2], kwargs |-> kwargs,
           tries |-> 0]]
    /\ UNCHANGED <<objects_cache, queue, edges, users, keys, store, followers, now, task>>

\* lines 595-606 inside the transaction, at time t: the function body runs
\* on the snapshot and its put is buffered
EdgeBegin(c, t) ==
    LET call == calls[c]
        got == EdgeGetOrCreate(edges, call.from, call.to, call.kwargs, t)
    IN
    /\ call.pc = "begin"
    /\ t >= now
    /\ now' = t
    /\ calls' = [calls EXCEPT ![c] =
          [pc |-> "commit", from |-> call.from, to |-> call.to,
           kwargs |-> call.kwargs, tries |-> call.tries + 1,
           seen |-> edges, puts |-> got.edges, id |-> got.id]]
    /\ UNCHANGED <<objects_cache, queue, edges, users, keys, store, followers, task, runs>>

\* a transaction that never finds a conflict
EdgeConflict_Never(seen, es, from, to) == FALSE

\* the commit fails if the entities the query matches were written since
EdgeConflict(seen, es, from, to) ==
    [i \in Matching(seen, from, to) |-> seen[i]] # [i \in Matching(es, from, to) |-> es[i]]

\* the commit: the buffered put reaches the datastore, a new entity under
\* the next free id, and the call returns its Follower (line 608); or the
\* function is run again
EdgeCommit(c) ==
    LET call == calls[c]
        created == Len(call.puts) > Len(call.seen)
        id == IF created THEN Len(edges) + 1 ELSE call.id
    IN
    /\ call.pc = "commit"
    /\ IF EdgeConflict(call.seen, edges, call.from, call.to)
       THEN /\ calls' = [calls EXCEPT ![c] =
                  [pc |-> "begin", from |-> call.from, to |-> call.to,
                   kwargs |-> call.kwargs, tries |-> call.tries]]
            /\ UNCHANGED edges
       ELSE /\ edges' = IF created THEN Append(edges, call.puts[call.id])
                        ELSE [edges EXCEPT ![id] = call.puts[id]]
            /\ calls' = [calls EXCEPT ![c] =
                  [pc |-> "returned", from |-> call.from, to |-> call.to,
                   kwargs |-> call.kwargs, tries |-> call.tries, id |-> id,
                   resp |-> "ok"]]
    /\ UNCHANGED <<objects_cache, queue, users, keys, store, followers, now, task, runs>>

NextEdgesConc ==
    \/ \E c \in Workers, kwargs \in Kwargs : EdgeCall(c, ConcPair, kwargs)
    \/ \E c \in Workers, t \in 1..MaxClock : EdgeBegin(c, t)
    \/ \E c \in Workers : EdgeCommit(c)

SpecEdgesConc == InitUsers /\ [][NextEdgesConc]_vars

(***************************************************************************)
(* Paged listings of a user's Followers (models.py lines 610-710).         *)
(***************************************************************************)
PAGE_SIZE == 20      \* models.py line 30
ManyEdges == 25      \* the most active followers the user has

\* the ActivityPub actors that follow the user
ActorNames ==
    <<"a01", "a02", "a03", "a04", "a05", "a06", "a07", "a08", "a09", "a10", "a11", "a12", "a13", "a14", "a15", "a16", "a17", "a18", "a19", "a20", "a21", "a22", "a23", "a24", "a25", "a26", "a27", "a28", "a29", "a30">>

\* the user's Follower entities: n active followers, the i-th written at
\* time i, except that with tie > 0 number tie + 1 was written at the same
\* time as number tie (InitPage puts such a pair where a full page ends);
\* then a follower that is inactive, and an actor the user follows
Listing(n, tie) ==
    [i \in 1..n |->
        Follower(ActorNames[i], TheUser, IF tie > 0 /\ i = tie + 1 THEN tie ELSE i)]
    \o <<[Follower("f1", TheUser, n + 1) EXCEPT !.status = "inactive"],
         Follower(TheUser, "r1", n + 2)>>

InitPage ==
    /\ store = << >>
    /\ followers = << >>
    /\ users = [d \in {TheUser} |-> User(TRUE)]
    /\ keys = [d \in {TheUser} |-> "k1"]
    /\ calls = [c \in Workers |-> NoCall]
    /\ queue = <<>>
    /\ objects_cache = << >>
    /\ \E n \in 0..ManyEdges : \E tie \in {0, n - PAGE_SIZE} :
          /\ tie >= 0
          /\ edges = Listing(n, tie)
    /\ now = 1
    /\ task = [w \in Workers |-> Idle]
    /\ runs = 0

\* values of the before and after query parameters: absent, a timestamp in
\* ISO 8601, or text that is no timestamp
NoParam == [kind |-> "none", t |-> 0]
BadParam == [kind |-> "bad", t |-> 0]

\* datetime.isoformat (lines 701 and 708)
IsoFormat(t) == [kind |-> "iso", t |-> t]

\* util.parse_iso8601 (line 672) of a value that is a timestamp
ParseIso(val) == val.t

\* a request that is never refused
ParamError_Never(before, after) == FALSE

\* lines 668-682: a value that does not parse, or both values, is an error
ParamError(before, after) ==
    \/ before.kind = "bad"
    \/ after.kind = "bad"
    \/ before.kind = "iso" /\ after.kind = "iso"

\* lines 629-633: the active Followers with the user on the side the
\* collection selects
QueryFor(es, collection, user) ==
    {i \in DOMAIN es :
        /\ es[i].status = "active"
        /\ (IF collection = "followers" THEN es[i].to ELSE es[i].from) = user}

\* lines 683-688: the filter on updated
Filter(es, matched, before, after) ==
    IF after.kind = "iso" THEN {i \in matched : es[i].updated >= ParseIso(after)}
    ELSE IF before.kind = "iso" THEN {i \in matched : es[i].updated < ParseIso(before)}
    ELSE matched

\* the order of the query: updated descending comes first (line 633), so the
\* orders added at lines 684-688 decide nothing; entities with the same
\* updated come in the order of their keys
RECURSIVE Ordered(_, _)
Ordered(es, ids) ==
    IF ids = {} THEN <<>>
    ELSE LET first == CHOOSE i \in ids : \A j \in ids :
                         \/ es[i].updated > es[j].updated
                         \/ es[i].updated = es[j].updated /\ i <= j
         IN <<first>> \o Ordered(es, ids \ {first})

\* line 691: itertools.islice(query_iter, 0, PAGE_SIZE)
Take(seq) == IF Len(seq) > PAGE_SIZE THEN SubSeq(seq, 1, PAGE_SIZE) ELSE seq

\* lines 666-710: guess is what probably_has_next answers when the query
\* ended exactly at the end of the page and nothing was read beyond it
FetchPage(es, matched, before, after, guess) ==
    IF ParamError(before, after)
    THEN [resp |-> "400", results |-> <<>>, before |-> NoParam, after |-> NoParam]
    ELSE
    LET all == Ordered(es, Filter(es, matched, before, after))
        results == Take(all)
        has_next == /\ results # <<>>
                    /\ \/ Len(all) > Len(results)
                       \/ Len(all) = PAGE_SIZE /\ guess
        new_after == IF before.kind = "iso" THEN before
                     ELSE IF has_next /\ after.kind = "iso"
                     THEN IsoFormat(es[results[1]].updated)
                     ELSE NoParam
        new_before == IF after.kind = "iso" THEN after
                      ELSE IF has_next
                      THEN IsoFormat(es[results[Len(results)]].updated)
                      ELSE NoParam
    IN [resp |-> "ok", results |-> results, before |-> new_before, after |-> new_after]

\* the values a client puts in before and after
ParamValues == {NoParam, BadParam} \cup {IsoFormat(t) : t \in {1, PAGE_SIZE}}

\* lines 610-643: a request for a page of a collection of the user
PageFor(c, collection, before, after, guess, start, shown) ==
    LET got == FetchPage(edges, QueryFor(edges, collection, TheUser), before, after, guess)
    IN
    /\ runs < MaxRuns
    /\ runs' = runs + 1
    /\ calls' = [calls EXCEPT ![c] =
          [pc |-> "returned", collection |-> collection, before |-> before,
           after |-> after, resp |-> got.resp, results |-> got.results,
           new_before |-> got.before, new_after |-> got.after,
           start |-> start, shown |-> shown]]
    /\ UNCHANGED <<objects_cache, queue, edges, users, keys, store, followers, now, task>>

\* a client asks for a page; start is the request a chain of pages began
\* with and shown the edges of the pages before this one
RequestPage(c, collection, before, after, guess) ==
    PageFor(c, collection, before, after, guess, <<before, after>>, <<>>)

\* a client that got a page with a before link follows it
Older(c, guess) ==
    /\ calls[c].pc = "returned"
    /\ calls[c].resp = "ok"
    /\ calls[c].new_before.kind = "iso"
    /\ PageFor(c, calls[c].collection, calls[c].new_before, NoParam, guess,
               calls[c].start, calls[c].shown \o calls[c].results)

NextPage ==
    \/ \E c \in Serial, collection \in {"followers", "following"},
          before \in ParamValues, after \in ParamValues, guess \in BOOLEAN :
          RequestPage(c, collection, before, after, guess)
    \/ \E c \in Serial, guess \in BOOLEAN : Older(c, guess)

SpecPage == InitPage /\ [][NextPage]_vars

(***************************************************************************)
(* Object ids as strings of characters: the escaping of # in proxy URLs    *)
(* (models.py lines 423-424, 454-462 and 476-487).                         *)
(***************************************************************************)
MaxIdLen == 3     \* characters in an Object id

\* the characters of an id: the fragment separator, the character its
\* escape is made of, and any other
IdChars == {"#", "^", "a"}

\* the ids of length up to MaxIdLen
IdStrings == UNION {[1..n -> IdChars] : n \in 0..MaxIdLen}

\* '^^' in id
HasEscaped(id) == \E i \in 1..(Len(id) - 1) : id[i] = "^" /\ id[i + 1] = "^"

\* id.replace('#', '^^'), line 485
RECURSIVE Escape(_)
Escape(id) ==
    IF id = <<>> THEN <<>>
    ELSE (IF Head(id) = "#" THEN <<"^", "^">> ELSE <<Head(id)>>) \o Escape(Tail(id))

\* id.replace('^^', '#'), line 462: occurrences are replaced from the left
RECURSIVE Unescape(_)
Unescape(id) ==
    IF id = <<>> THEN <<>>
    ELSE IF Len(id) >= 2 /\ id[1] = "^" /\ id[2] = "^"
         THEN <<"#">> \o Unescape(SubSeq(id, 3, Len(id)))
         ELSE <<Head(id)>> \o Unescape(Tail(id))

InitEscape ==
    /\ store = << >>
    /\ followers = << >>
    /\ edges = <<>>
    /\ users = << >>
    /\ keys = << >>
    /\ \E id \in IdStrings :
          calls = [c \in Workers |->
                     IF c \in Serial
                     THEN [pc |-> "given", id |-> id, cur |-> id, ops |-> <<>>,
                           found |-> FALSE]
                     ELSE NoCall]
    /\ queue = <<>>
    /\ objects_cache = << >>
    /\ now = 1
    /\ task = [w \in Workers |-> Idle]
    /\ runs = 0

\* lines 423-424: Object(id=id).put() of the id the caller was given
PutObject(c) ==
    /\ calls[c].pc = "given"
    /\ calls[c].ops = <<>>
    /\ IF HasEscaped(calls[c].id)
       THEN /\ calls' = [calls EXCEPT ![c].pc = "raised"]
            /\ UNCHANGED store
       ELSE /\ store' = Put(store, calls[c].id, NoObject)
            /\ calls' = [calls EXCEPT ![c].ops = <<"put">>]
    /\ UNCHANGED <<objects_cache, queue, edges, users, keys, followers, now, task, runs>>

\* the escapes and unescapes applied so far
Conversions(call) == SelectSeq(call.ops, LAMBDA op : op # "put")

\* lines 484-487: proxy_url of the Object with the current id
ProxyUrl(c) ==
    /\ calls[c].pc = "given"
    /\ Len(Conversions(calls[c])) < 2
    /\ calls' = [calls EXCEPT ![c] =
          IF HasEscaped(@.cur) THEN [@ EXCEPT !.pc = "raised"]
          ELSE [@ EXCEPT !.cur = Escape(@), !.ops = Append(@, "escape")]]
    /\ UNCHANGED <<objects_cache, queue, edges, users, keys, store, followers, now, task, runs>>

\* lines 454-462: Object.get_by_id of the current id
ObjectGetById(c) ==
    /\ calls[c].pc = "given"
    /\ Len(Conversions(calls[c])) < 2
    /\ calls' = [calls EXCEPT ![c] =
          [@ EXCEPT !.cur = Unescape(@), !.ops = Append(@, "unescape"),
                    !.found = Exists(store, Unescape(calls[c].cur))]]
    /\ UNCHANGED <<objects_cache, queue, edges, users, keys, store, followers, now, task, runs>>

NextEscape ==
    \/ \E c \in Serial : PutObject(c)
    \/ \E c \in Serial : ProxyUrl(c)
    \/ \E c \in Serial : ObjectGetById(c)

SpecEscape == InitEscape /\ [][NextEscape]_vars

(***************************************************************************)
(* POST /webmention (web.py lines 415-451) and the queue it feeds.         *)
(***************************************************************************)
\* the source parameter of a request: absent, text that is no web URL, a
\* web URL without a domain, or the URL of a page on a domain
NoSource == [kind |-> "missing", domain |-> None, page |-> None]
SourceParams ==
    {NoSource,
     [kind |-> "text", domain |-> None, page |-> None],
     [kind |-> "url", domain |-> None, page |-> None]}
    \cup {[kind |-> "url", domain |-> d, page |-> s] :
             d \in {TheUser, "www.user", "nope"}, s \in Sources}

\* the form of a request
Forms == {[source |-> src, target |-> tgt] : src \in SourceParams, tgt \in {"fed"}}

\* a handler that asks for no user
Accepts_AnyDomain(us, form) == form.source.kind = "url" /\ form.source.domain # None

\* lines 424-434: the checks a request passes before its task is enqueued
Accepts(us, form) ==
    /\ form.source.kind # "missing"
    /\ form.source.kind = "url"
    /\ form.source.domain # None
    /\ UserGetById(us, form.source.domain) # None

\* lines 415-451
WebmentionExternal(c, form) ==
    /\ runs < MaxRuns
    /\ runs' = runs + 1
    /\ queue' = IF Accepts(users, form) THEN Append(queue, form) ELSE queue
    /\ calls' = [calls EXCEPT ![c] =
          [pc |-> "returned", op |-> "webmention", n |-> runs', form |-> form,
           resp |-> IF Accepts(users, form) THEN "202" ELSE "400"]]
    /\ UNCHANGED <<objects_cache, edges, users, keys, store, followers, now, task>>

\* the queue hands its oldest task to the handler (lines 470-482)
RunQueued(w) ==
    /\ queue # <<>>
    /\ task[w].pc \in {"idle", "done"}
    /\ queue' = Tail(queue)
    /\ task' = [task EXCEPT ![w] =
          Started(users, Head(queue).source.domain, Head(queue).source.page)]
    /\ UNCHANGED <<objects_cache, edges, users, keys, calls, store, followers, now, runs>>

InitIngest ==
    /\ store = << >>
    /\ followers = << >>
    /\ edges = <<>>
    /\ \E us \in {[d \in {} |-> None], [d \in {TheUser} |-> User(TRUE)]} : users = us
    /\ keys = [d \in DOMAIN users |-> "k1"]
    /\ calls = [c \in Workers |-> NoCall]
    /\ queue = <<>>
    /\ objects_cache = << >>
    /\ now = 1
    /\ task = [w \in Workers |-> Idle]
    /\ runs = 0

NextIngest ==
    \/ \E c \in Serial, form \in Forms : WebmentionExternal(c, form)
    \/ \E w \in Serial : RunQueued(w)
    \/ \E d \in {TheUser, "www.user"}, redir \in Redirects : CheckWebSite(d, redir)

SpecIngest == InitIngest /\ [][NextIngest]_vars

(***************************************************************************)
(* models.Object as an entity: a caller builds an Object in memory, sets   *)
(* its labels, edits its payload and puts it; the put runs _pre_put_hook,  *)
(* computes type and expire, and _post_put_hook updates the cache.         *)
(***************************************************************************)
MaxLabels == 2
OBJECT_EXPIRE_AGE == 90          \* timedelta(days=90), with time in days
OBJECT_EXPIRE_TYPES == {"post", "update", "delete", "accept", "reject", "undo", None}

\* Object.as1 by its objectType and verb; NoAs1 is an Object with no payload
\* (as1 is None), and stands for an as1 without objectType as well
As1(objectType, verb) == [objectType |-> objectType, verb |-> verb]
NoAs1 == As1(None, None)
Verbs == {"post", "update", "delete", "accept", "reject", "undo", "like"}
Contents == {NoAs1, As1("note", None)} \cup {As1("activity", v) : v \in Verbs}

\* Object.type: as1.object_type, the verb of an activity, else the objectType
ObjectType(as1) == IF as1.objectType = "activity" THEN as1.verb ELSE as1.objectType

\* Object._expire
Expire(type, updated, t) ==
    IF type \in OBJECT_EXPIRE_TYPES
    THEN (IF updated # NoTime THEN updated ELSE t) + OBJECT_EXPIRE_AGE
    ELSE NoTime

\* the values of Object.labels that callers build: 'activity' is added by
\* _pre_put_hook alone, which adds it when it is absent
LabelLists ==
    {l \in UNION {[1..n -> {"user", "activity"}] : n \in 0..MaxLabels} :
        Cardinality({i \in 1..Len(l) : l[i] = "activity"}) <= 1}

\* a hook that adds the label and never takes it away
PrePutLabels_AppendOnly(as1, labels) ==
    IF as1.objectType = "activity" /\ ~\E i \in 1..Len(labels) : labels[i] = "activity"
    THEN Append(labels, "activity")
    ELSE labels

\* Object._pre_put_hook, lines 426-431
PrePutLabels(as1, labels) ==
    IF as1.objectType = "activity"
    THEN IF \E i \in 1..Len(labels) : labels[i] = "activity"
         THEN labels ELSE Append(labels, "activity")
    ELSE IF \E i \in 1..Len(labels) : labels[i] = "activity"
         THEN Remove(labels, "activity") ELSE labels

\* ids of Objects: a source URL and the Create id made from it
ObjectIds == {"post", "post#bridgy-fed-create"}
HasFragment(id) == id = "post#bridgy-fed-create"       \* '#' in id

\* to_dict(exclude=['as1', 'expire', 'object_ids', 'type']) passed to Object():
\* the stored properties, the payload among them (here as1 stands for the
\* payload it is computed from)
CacheCopy(o) == [as1 |-> o.as1, labels |-> o.labels, mf2 |-> o.mf2, updated |-> o.updated]

\* Object(id=..., labels=...) with a payload
Construct(c, id, as1, labels) ==
    /\ calls[c].pc = "idle"
    /\ calls' = [calls EXCEPT ![c] =
          [pc |-> "held", id |-> id, as1 |-> as1, labels |-> labels, mf2 |-> "given",
           updated |-> NoTime, given |-> <<>>]]
    /\ UNCHANGED <<objects_cache, queue, edges, users, keys, store, followers, now, task, runs>>

\* obj.populate(labels=[...]), web.py lines 606-613
SetLabels(c, labels) ==
    /\ calls[c].pc = "held"
    /\ calls' = [calls EXCEPT ![c].labels = labels]
    /\ UNCHANGED <<objects_cache, queue, edges, users, keys, store, followers, now, task, runs>>

\* web.py lines 510-516: props['author'] = [...] on the payload, in place
EditPayload(c) ==
    /\ calls[c].pc = "held"
    /\ calls' = [calls EXCEPT ![c].mf2 = "edited"]
    /\ UNCHANGED <<objects_cache, queue, edges, users, keys, store, followers, now, task, runs>>

\* obj.put() at time t: _pre_put_hook, the write with updated (auto_now) and
\* the computed type and expire, _post_put_hook
ObjectPut(c, t) ==
    LET o == calls[c]
        labels == PrePutLabels(o.as1, o.labels)
        entity == [as1 |-> o.as1, labels |-> labels, mf2 |-> o.mf2, updated |-> t,
                   type |-> ObjectType(o.as1),
                   expire |-> Expire(ObjectType(o.as1), t, t)]
    IN
    /\ o.pc = "held"
    /\ runs < MaxRuns
    /\ runs' = runs + 1
    /\ t \in now..MaxClock
    /\ now' = t
    /\ store' = Put(store, o.id, entity)
    /\ objects_cache' = IF HasFragment(o.id) THEN objects_cache
                        ELSE Put(objects_cache, o.id, CacheCopy(entity))
    /\ calls' = [calls EXCEPT ![c] = [o EXCEPT !.labels = labels, !.updated = t,
                                               !.given = o.labels]]
    /\ UNCHANGED <<queue, edges, users, keys, followers, task>>

NextObjects ==
    \/ \E c \in Serial, id \in ObjectIds, as1 \in Contents, labels \in {<<>>, <<"user">>} :
          Construct(c, id, as1, labels)
    \/ \E c \in Serial, labels \in LabelLists : SetLabels(c, labels)
    \/ \E c \in Serial : EditPayload(c)
    \/ \E c \in Serial, t \in 1..MaxClock : ObjectPut(c, t)

SpecObjects == InitUsers /\ [][NextObjects]_vars
(***************************************************************************)
(* Properties.                                                             *)
(***************************************************************************)
Range(seq) == {seq[i] : i \in 1..Len(seq)}
Uris(targets) == [i \in 1..Len(targets) |-> targets[i].uri]
TargetsOf(targets) == {Target(targets[i].uri) : i \in 1..Len(targets)}
NoDuplicates(seq) == \A i, j \in 1..Len(seq) : seq[i] = seq[j] => i = j

\* the run of worker w went through the delivery loop to its end
Completed(w) == task[w].pc = "done" /\ task[w].resp \in {"sent", "error"}
\* the run of worker w entered the delivery loop
InLoop(w) == task[w].pc = "deliver" \/ task[w].resp \in {"sent", "error", "raised"}

\* C1: in every stored Object the lists delivered, undelivered and failed are
\* pairwise disjoint: no target is in two of them.
C1_ListsDisjoint ==
    \A id \in DOMAIN store :
        /\ Range(store[id].delivered) \cap Range(store[id].undelivered) = {}
        /\ Range(store[id].delivered) \cap Range(store[id].failed) = {}
        /\ Range(store[id].undelivered) \cap Range(store[id].failed) = {}

\* a stored Object mid-run: one target failed, another still undelivered
C1_Witness ==
    \E id \in DOMAIN store :
        /\ store[id].status = "in progress"
        /\ store[id].failed # <<>>
        /\ store[id].undelivered # <<>>

\* C2: when the loop has finished the stored status is complete if delivered
\* is non-empty, else failed if failed is non-empty, else ignored; a run that
\* resolves no target stores ignored and attempts no delivery.
C2_TerminalStatus ==
    \A w \in Workers :
        /\ Completed(w) =>
              /\ Exists(store, task[w].id)
              /\ LET o == store[task[w].id]
                 IN o.status = IF o.delivered # <<>> THEN "complete"
                               ELSE IF o.failed # <<>> THEN "failed"
                               ELSE "ignored"
        /\ (task[w].pc = "done" /\ task[w].resp = "No targets") =>
              /\ Exists(store, task[w].id)
              /\ store[task[w].id].status = "ignored"
              /\ task[w].attempts = <<>>

\* a finished run with one target delivered and one failed, stored complete
C2_Witness ==
    \E w \in Workers :
        /\ Completed(w)
        /\ store[task[w].id].delivered # <<>>
        /\ store[task[w].id].failed # <<>>
        /\ store[task[w].id].status = "complete"

\* C4: a delivery that fails with a transport or protocol error moves its
\* target from undelivered to failed and the loop goes on: the attempts are
\* the resolved targets in order, each once, and only another kind of
\* exception ends a run before all of them are attempted.
C4_FailureDoesNotAbort ==
    \A w \in Workers :
        LET t == task[w] IN
        /\ Len(t.attempts) <= Len(t.targets)
        /\ \A i \in 1..Len(t.attempts) : t.attempts[i] = t.targets[i].uri
        /\ NoDuplicates(t.attempts)
        /\ \A i \in 1..Len(t.outs) :
              t.outs[i] = "http" =>
                 /\ Target(t.attempts[i]) \in Range(t.obj.failed)
                 /\ Target(t.attempts[i]) \notin Range(t.obj.undelivered)
        /\ (t.pc = "done" /\ InLoop(w) /\ "fatal" \notin Range(t.outs)) =>
              t.attempts = Uris(t.targets)

\* a finished run whose first delivery failed and whose second was made
C4_Witness ==
    \E w \in Workers :
        /\ Completed(w)
        /\ Len(task[w].outs) = 2
        /\ task[w].outs[1] = "http"
        /\ task[w].outs[2] = "ok"
Terminal == {"complete", "failed", "ignored"}
ListsUnion(o) == Range(o.delivered) \cup Range(o.undelivered) \cup Range(o.failed)
StatusOf(st, id) == IF id \in DOMAIN st THEN st[id].status ELSE None
\* the type of the source page worker w fetched, as stored by the load
SourceType(w) == GetById(store, <<task[w].source, "", NoTime>>).type

\* C3: on entering 'in progress' undelivered is the full resolved set and
\* delivered and failed are empty; at every persisted state of the run the
\* union of the three lists is the resolved set; after a run that reaches a
\* terminal status undelivered is empty.
C3_ListsAreThisRunsTargets ==
    \A w \in Workers :
        LET t == task[w] IN
        /\ (t.pc = "deliver" /\ t.attempts = <<>>) =>
              /\ t.obj.status = "in progress"
              /\ t.obj.undelivered = [i \in 1..Len(t.targets) |-> Target(t.targets[i].uri)]
              /\ t.obj.delivered = <<>>
              /\ t.obj.failed = <<>>
        /\ (InLoop(w) /\ \E i \in 1..Len(t.outs) : t.outs[i] \in {"ok", "http"}) =>
              ListsUnion(store[t.id]) = TargetsOf(t.targets)
        /\ (t.pc = "done" /\ t.resp \in {"sent", "error", "No targets"}) =>
              /\ store[t.id].status \in Terminal
              /\ ListsUnion(store[t.id]) = TargetsOf(t.targets)
              /\ store[t.id].undelivered = <<>>

C9_ActivitiesSentAsIs ==
    \A w \in Workers :
        LET t == task[w]
            activity == \/ t.fetched = "gone"
                        \/ t.fetched = "ok" /\ SourceType(w) \in {"like", "share", "follow"}
        IN (activity /\ t.pc \in {"deliver", "done"} /\ t.targets # <<>>) =>
              /\ t.wrap = "asis"
              /\ InLoop(w)
              /\ t.obj.type = IF t.fetched = "gone" THEN "delete" ELSE SourceType(w)
              /\ t.id = IF t.fetched = "gone"
                        THEN <<t.source, "#bridgy-fed-delete", NoTime>>
                        ELSE <<t.source, "", NoTime>>
              /\ Range(t.attempts) \cup {x.uri : x \in Range(t.obj.undelivered)}
                    = {x.uri : x \in Range(t.targets)}

\* a share fetched again, unchanged, and delivered again
C9_Witness ==
    \E w \in Workers :
        /\ Completed(w)
        /\ ~task[w].new
        /\ ~task[w].changed
        /\ task[w].obj.type = "share"
        /\ task[w].wrap = "asis"
        /\ task[w].obj.delivered # <<>>

\* C10: when the fetch answers 404 or 410, the run goes on with a delete
\* activity '{source}#bridgy-fed-delete' exactly if '{source}#bridgy-fed-create'
\* is stored with status complete, and that delete enters the delivery loop
\* as it is; otherwise the run ends with 304, writes nothing and attempts no
\* delivery.
C10_DeleteOnlyIfPublished ==
    [][\A w \in Workers :
          LET t == task[w]
              u == task'[w]
              create == <<t.source, "#bridgy-fed-create", NoTime>>
          IN /\ (t.pc = "load" /\ u.fetched = "gone") =>
                   IF create \in DOMAIN store /\ store[create].status = "complete"
                   THEN /\ u.pc = "resolve"
                        /\ u.id = <<t.source, "#bridgy-fed-delete", NoTime>>
                        /\ u.obj.type = "delete"
                   ELSE /\ u.pc = "done"
                        /\ u.resp = "304"
                        /\ u.attempts = <<>>
                        /\ store' = store
             /\ (t.fetched = "gone" /\ t.pc = "wrap") =>
                   /\ u.pc = "deliver"
                   /\ u.id = t.id
                   /\ u.obj.type = "delete"
                   /\ Range(u.obj.undelivered) = TargetsOf(t.targets)]_vars

\* the delete of a published note, delivered
C10_Witness ==
    \E w \in Workers :
        /\ Completed(w)
        /\ task[w].fetched = "gone"
        /\ task[w].obj.type = "delete"
        /\ task[w].obj.delivered # <<>>
        /\ store[<<task[w].source, "#bridgy-fed-delete", NoTime>>].status = "complete"
\* C11: for one version of a note, article or comment and one endpoint, at
\* most one Create delivery is attempted by the work units that process the
\* source without force, two concurrent work units included.
C11_AtMostOneCreate ==
    \A w1, w2 \in Workers :
        (/\ w1 # w2
         /\ task[w1].wrap = "create" /\ task[w2].wrap = "create"
         /\ ~task[w1].force /\ ~task[w2].force
         /\ task[w1].source = task[w2].source
         /\ task[w1].obj.ver = task[w2].obj.ver) =>
            Range(task[w1].attempts) \cap Range(task[w2].attempts) = {}
\* C12: when a work unit that was interrupted is run again from scratch on
\* the same unchanged source, it makes the envelope decision the interrupted
\* run made and goes on to attempt delivery.
C12_RerunSameDecision ==
    \A w \in Workers :
        LET t == task[w] IN
        (t.retry /\ t.fetched = "ok" /\ ~t.changed /\ t.wrap # "none") =>
            /\ t.wrap = t.first
            /\ t.pc = "done" => InLoop(w)
\* C13: once a follow has made a delivery attempt to a resolved target, an
\* active Follower edge from the user to the followed actor exists and refers
\* to the follow Object, whether the edge was absent or inactive before and
\* whatever the outcome of the delivery.
C13_FollowEdgeActive ==
    \A w \in Workers :
        LET t == task[w] IN
        (t.obj.type = "follow" /\ t.wrap = "asis") =>
            \A i \in 1..Len(t.attempts) :
                LET edge == <<TheUser, t.targets[i].tgt>> IN
                /\ edge \in DOMAIN followers
                /\ followers[edge].status = "active"
                /\ followers[edge].follow = t.id
\* the endpoint a follower's profile prefers: shared, else public, else inbox
Preferred(f) ==
    IF ActorProfile(f).sharedInbox # "" THEN ActorProfile(f).sharedInbox
    ELSE IF ActorProfile(f).publicInbox # "" THEN ActorProfile(f).publicInbox
    ELSE ActorProfile(f).inbox
ActiveFollowers == {f \in FollowerActors : followers[<<f, TheUser>>].status = "active"}
ActiveEndpoints == {Preferred(f) : f \in ActiveFollowers} \ {""}
\* the inboxes of the references of a page of this type that answer with one
ExplicitInboxes(type, fr) ==
    {RemoteInbox(r) : r \in {x \in Range(RefsOf(type)) \ {"rb"} : fr[x] = "inbox"}}
InboxUris(inboxes) == {inboxes[i].uri : i \in 1..Len(inboxes)}
\* worker w has resolved its targets without an error
Resolved(w) ==
    \/ task[w].pc \in {"wrap", "deliver"}
    \/ task[w].pc = "done" /\ task[w].resp \in {"No targets", "204", "sent", "error", "raised"}
Occurrences(seq, x) == Cardinality({i \in 1..Len(seq) : seq[i] = x})

\* C14: in one work unit every endpoint is a target once and is attempted at
\* most once, however many followers or references resolve to it; when the
\* loop has finished each resolved endpoint was attempted exactly once.
C14_OneAttemptPerEndpoint ==
    /\ \A w \in Workers :
          LET t == task[w] IN
          /\ \A i, j \in 1..Len(t.targets) : t.targets[i].uri = t.targets[j].uri => i = j
          /\ \A x \in InboxUris(t.targets) :
                /\ Occurrences(t.attempts, x) <= 1
                /\ Completed(w) => Occurrences(t.attempts, x) = 1
    /\ \A fr \in Fetches, type \in PageTypes :
          LET res == ActivitypubTargets(Object(type, 1, NoTime), fr, followers)
          IN Cardinality(InboxUris(res.inboxes)) = Len(res.inboxes)

\* a note delivered once to the shared inbox of two active followers
C14_Witness ==
    \E w \in Workers :
        /\ Completed(w)
        /\ {"f2", "f3"} \subseteq ActiveFollowers
        /\ SourceType(w) = "note"
        /\ Occurrences(task[w].attempts, "i3") = 1

\* C15: an activity without explicit targets is resolved to exactly the
\* preferred endpoints (shared, else public, else inbox) of the user's active
\* followers; inactive followers and followers without an endpoint add nothing.
C15_FanOutToActiveFollowers ==
    /\ \A w \in Workers :
          LET t == task[w] IN
          (/\ Resolved(w)
           /\ \/ t.fetched = "gone"
              \/ t.fetched = "ok" /\ t.source = "home"
              \/ t.fetched = "ok" /\ SourceType(w) = "note") =>
                InboxUris(t.targets) = ActiveEndpoints
    /\ \A fr \in Fetches :
          LET res == ActivitypubTargets(Object("note", 1, NoTime), fr, followers)
          IN res.err = "none" /\ InboxUris(res.inboxes) = ActiveEndpoints

\* a note delivered to an individual inbox and to a shared inbox that an
\* inactive follower has too, and stored complete
C15_Witness ==
    \E w \in Workers :
        /\ Completed(w)
        /\ SourceType(w) = "note"
        /\ ActiveFollowers = {"f1", "f2"}
        /\ Range(task[w].attempts) = {"i2", "i3"}
        /\ store[task[w].id].status = "complete"

\* C16: an activity with explicit references that is not a share is never
\* fanned out to followers: its targets are endpoints of its references only,
\* also when every reference is blocklisted or unresolvable.
C16_NoFanOutWithExplicitTargets ==
    \A w \in Workers :
        LET t == task[w] IN
        (/\ Resolved(w)
         /\ t.fetched = "ok" /\ t.source # "home"
         /\ SourceType(w) \in {"comment", "like", "follow"}) =>
              InboxUris(t.targets) \subseteq {RemoteInbox(r) : r \in Range(RefsOf(SourceType(w)))}

\* C17: a share is resolved to the endpoints of its explicit targets together
\* with the preferred endpoints of all the user's active followers.
C17_ShareTargets ==
    /\ \A fr \in Fetches :
          LET res == ActivitypubTargets(Object("share", 1, NoTime), fr, followers)
          IN res.err = "none" =>
                InboxUris(res.inboxes) = ExplicitInboxes("share", fr) \cup ActiveEndpoints
    /\ \A w \in Workers :
          (Resolved(w) /\ task[w].fetched = "ok" /\ SourceType(w) = "share") =>
              /\ ActiveEndpoints \subseteq InboxUris(task[w].targets)
              /\ InboxUris(task[w].targets) \subseteq
                    {RemoteInbox(r) : r \in Range(RefsOf("share"))} \cup ActiveEndpoints

\* a share delivered to the inbox of the shared object and to a follower's
C17_Witness ==
    \E w \in Workers :
        /\ Completed(w)
        /\ SourceType(w) = "share"
        /\ ActiveEndpoints = {"i3"}
        /\ Range(task[w].attempts) = {"i2", "i3"}

\* C18: a blocklisted reference is dropped before resolution: the resolved
\* targets do not depend on what a fetch of it would return, none of them is
\* its endpoint or carries it, and an activity whose only reference is
\* blocklisted, from a user without followers, ends without a delivery.
C18_BlocklistedNeverTargeted ==
    /\ \A fr \in Fetches, type \in PageTypes :
          LET res == ActivitypubTargets(Object(type, 1, NoTime), fr, followers)
          IN /\ res = ActivitypubTargets(Object(type, 1, NoTime),
                                         [fr EXCEPT !["rb"] = "error"], followers)
             /\ \A i \in 1..Len(res.inboxes) :
                   res.inboxes[i].uri # "ib" /\ res.inboxes[i].tgt # "rb"
    /\ \A w \in Workers :
          LET t == task[w] IN
          /\ "ib" \notin Range(t.attempts)
          /\ (/\ Resolved(w) /\ t.fetched = "ok" /\ t.source # "home"
              /\ SourceType(w) = "like" /\ ActiveEndpoints = {}) =>
                 /\ t.resp = "No targets"
                 /\ t.attempts = <<>>

\* a like of a blocklisted page by a user without followers: no targets
C18_Witness ==
    \E w \in Workers :
        /\ task[w].pc = "done"
        /\ task[w].resp = "No targets"
        /\ SourceType(w) = "like"
        /\ ActiveFollowers = {}
        /\ task[w].attempts = <<>>

\* the users a request can reach: what get_by_id returns for some domain
Reached == {UserGetById(users, d) : d \in Domains} \ {None}

\* C19: get_by_id follows use_instead to a fixed point: whatever the chain of
\* redirects, the user it returns, and so the user get_or_create returns and
\* the user a webmention is processed for, has no use_instead set
C19_GetByIdFixedPoint ==
    /\ \A u \in Reached : users[u].use_instead = None
    /\ \A d \in Domains, direct \in BOOLEAN :
          LET got == UserGetOrCreate(users, d, direct) IN
          got.users[got.user].use_instead = None

Returned == {c \in Workers : calls[c].pc = "returned"}

\* C21: however concurrent get_or_create calls for one id interleave, the key
\* material stored for a user is never replaced, and every call that has
\* returned holds the stored user with the key material stored for it
C21_OneIdentityOneKey ==
    [][/\ \A id \in DOMAIN keys : id \in DOMAIN keys' /\ keys'[id] = keys[id]
       /\ \A c \in Workers : calls'[c].pc = "returned" =>
             /\ calls'[c].user \in DOMAIN users'
             /\ calls'[c].user = calls'[c].id
             /\ calls'[c].key = keys'[calls'[c].user]]_vars

\* two calls have returned the same key material, one of them after its
\* first commit failed and its function ran again
C21_Witness ==
    /\ Returned = Workers
    /\ calls["w1"].key = calls["w2"].key
    /\ \E c \in Workers : calls[c].tries = 2


C24_EqualValuesNoWrite ==
    \A pair \in EdgePairs, kwargs \in Kwargs, t \in now..MaxClock :
       LET found == Matching(edges, pair[1], pair[2]) IN
       (/\ found # {}
        /\ \A i \in found : SetProps(edges[i], kwargs) = edges[i])
          => EdgeGetOrCreate(edges, pair[1], pair[2], kwargs, t).edges = edges

\* C25: every stored edge joins users of different kinds, or two Fake users;
\* a call that would write another edge raises and writes nothing, and the
\* edge the delivery of a follow writes goes from a Web user to an
\* ActivityPub user
C25_CrossProtocol ==
    [][/\ \A i \in DOMAIN edges' :
             \/ Kind(edges'[i].from) # Kind(edges'[i].to)
             \/ Kind(edges'[i].from) = "Fake" /\ Kind(edges'[i].to) = "Fake"
       /\ \A c \in Workers : calls'[c].pc = "returned" =>
             /\ calls'[c].resp = "raised" <=>
                   /\ Kind(calls'[c].from) = Kind(calls'[c].to)
                   /\ Kind(calls'[c].from) # "Fake"
                   /\ Matching(edges, calls'[c].from, calls'[c].to) = {}
             /\ calls'[c].resp = "raised" => edges' = edges]_vars

\* the delivery of a follow wrote an edge, and a call for two Web users raised
C25_Witness ==
    /\ calls["w1"].pc = "returned"
    /\ calls["w1"].resp = "raised"
    /\ \E i \in DOMAIN edges :
          /\ edges[i].from = TheUser
          /\ edges[i].to \in Remotes
          /\ edges[i].follow = SourceId("post")


\* C23: however Follower.get_or_create calls follow or overlap each other,
\* no two Follower entities have the same from and the same to
C23_OneEdgePerPair ==
    \A i, j \in DOMAIN edges :
       (edges[i].from = edges[j].from /\ edges[i].to = edges[j].to) => i = j

\* two calls that both found no edge have returned the same Follower, one
\* of them after its first commit failed
C23_Witness ==
    /\ Returned = Workers
    /\ calls["w1"].id = calls["w2"].id
    /\ \E c \in Workers : calls[c].tries = 2
    /\ Len(edges) = 1
    /\ runs = 2


\* the active Followers of the user
ActiveEdges == QueryFor(edges, "followers", TheUser)

\* C26: a page of the followers collection has at most PAGE_SIZE edges, all
\* active followers of the user, newest first; with more than PAGE_SIZE and at
\* most twice PAGE_SIZE active followers the first page is full and has a
\* before cursor, and the page that cursor leads to has all the remaining
\* followers and no before cursor
C26_Pages ==
    \A c \in Workers :
       (calls[c].pc = "returned" /\ calls[c].resp = "ok"
        /\ calls[c].collection = "followers") =>
          LET r == calls[c].results IN
          /\ Len(r) <= PAGE_SIZE
          /\ \A k \in 1..Len(r) : r[k] \in ActiveEdges
          /\ \A k \in 1..(Len(r) - 1) : edges[r[k]].updated >= edges[r[k + 1]].updated
          /\ (calls[c].shown = <<>> /\ calls[c].start = <<NoParam, NoParam>>
              /\ Cardinality(ActiveEdges) > PAGE_SIZE) =>
                /\ Len(r) = PAGE_SIZE
                /\ calls[c].new_before.kind = "iso"
          /\ (Len(calls[c].shown) = PAGE_SIZE /\ calls[c].start = <<NoParam, NoParam>>
              /\ Cardinality(ActiveEdges) <= PAGE_SIZE + PAGE_SIZE) =>
                /\ {r[k] : k \in 1..Len(r)} =
                      ActiveEdges \ {calls[c].shown[k] : k \in 1..PAGE_SIZE}
                /\ calls[c].new_before = NoParam

\* C27: a request with both before and after, or with a before or after that
\* is no timestamp, gets a client error, no results and no cursors
C27_BadParamsRejected ==
    \A c \in Workers :
       (/\ calls[c].pc = "returned"
        /\ \/ calls[c].before.kind = "bad"
           \/ calls[c].after.kind = "bad"
           \/ calls[c].before.kind = "iso" /\ calls[c].after.kind = "iso") =>
          /\ calls[c].resp = "400"
          /\ calls[c].results = <<>>
          /\ calls[c].new_before = NoParam
          /\ calls[c].new_after = NoParam

\* a request with both before and after, each a timestamp, was refused while
\* the user has followers a page would show
C27_Witness ==
    /\ calls["w1"].pc = "returned"
    /\ calls["w1"].before.kind = "iso"
    /\ calls["w1"].after.kind = "iso"
    /\ calls["w1"].resp = "400"
    /\ Cardinality(ActiveEdges) = ManyEdges


\* C28: for every id, unescaping the escaped id and escaping the unescaped id
\* both give the id back, and no stored Object id contains ^^
C28_RoundTrip ==
    /\ \A c \in Serial :
          Len(Conversions(calls[c])) = 2 /\ Conversions(calls[c])[1] # Conversions(calls[c])[2]
             => calls[c].cur = calls[c].id
    /\ \A id \in DOMAIN store : ~HasEscaped(id)


\* C29: a POST /webmention whose source is a web URL on the domain of a user
\* appends one task with the form of the request to the queue and answers
\* 202; any other request answers 400 and enqueues nothing; either way no
\* Object or Follower is written and no task is run by the request
C29_EnqueueOrReject ==
    [][\A c \in Workers :
         (calls'[c] # calls[c] /\ calls'[c].op = "webmention") =>
            LET form == calls'[c].form
                known == /\ form.source.kind = "url"
                         /\ form.source.domain \in DOMAIN users
            IN
            /\ store' = store /\ followers' = followers /\ edges' = edges
            /\ task' = task /\ users' = users
            /\ IF known
               THEN calls'[c].resp = "202" /\ queue' = Append(queue, form)
               ELSE calls'[c].resp = "400" /\ queue' = queue]_vars

\* the second request, for a page on the domain of a user, was answered 202
\* and its task is the one in the queue
C29_Witness ==
    /\ calls["w1"].pc = "returned"
    /\ calls["w1"].resp = "202"
    /\ calls["w1"].n = 2
    /\ Len(queue) = 1
    /\ queue[1] = calls["w1"].form

\* C30: a fetch of the source that fails with an HTTP error other than 404
\* and 410 ends the run with 502, with nothing written to the datastore, no
\* target resolved and no delivery attempted, whatever is stored for the
\* source; a 404 or 410 never ends with 502: the run goes on with the delete
\* activity of the source or, when its Create was not published, ends with
\* 304.
C30_FetchErrors ==
    [][\A w \in Workers :
          LET t == task[w]
              u == task'[w]
          IN /\ (t.pc \in {"load", "fetch"} /\ u.fetched = "error") =>
                   /\ u.pc = "done"
                   /\ u.resp = "502"
                   /\ u.targets = <<>>
                   /\ u.attempts = <<>>
                   /\ u.obj = t.obj
                   /\ store' = store
                   /\ followers' = followers
             /\ (t.pc \in {"load", "fetch"} /\ u.fetched = "gone") =>
                   /\ u.resp # "502"
                   /\ \/ u.pc = "resolve" /\ u.obj.type = "delete"
                      \/ u.pc = "done" /\ u.resp = "304"
                   /\ store' = store]_vars

\* a published note whose fetch fails with a server error: 502, and the
\* Create stays as it was
C30_Witness ==
    \E w \in Workers :
        /\ task[w].pc = "done"
        /\ task[w].fetched = "error"
        /\ task[w].resp = "502"
        /\ Published(store, task[w].source)
        /\ ~Exists(store, DeleteId(task[w].source))

\* the attempts of the run of worker w that ended in success or in an error
\* with an HTTP code or body: all of them, but the last when it was re-raised
Finished(w) ==
    LET t == task[w]
        n == IF t.outs # <<>> /\ Propagates(t.outs[Len(t.outs)])
             THEN Len(t.attempts) - 1 ELSE Len(t.attempts)
    IN [i \in 1..n |-> t.attempts[i]]

\* C31: whenever a run is between two delivery attempts, or was interrupted
\* by an exception in an attempt, the stored Object has every attempt that
\* ended in success or in a transport failure in delivered or failed, by its
\* outcome, and exactly the other resolved targets in undelivered.
C31_ProgressDurable ==
    \A w \in Workers :
        LET t == task[w] IN
        ((t.pc = "deliver" \/ (t.pc = "done" /\ t.resp = "raised")) /\ Finished(w) # <<>>) =>
            /\ t.id \in DOMAIN store
            /\ LET o == store[t.id] IN
               /\ o.delivered = [i \in 1..Len(o.delivered) |-> [uri |-> o.delivered[i].uri,
                                                                protocol |-> "activitypub"]]
               /\ {x.uri : x \in Range(o.delivered)} =
                      {t.attempts[i] : i \in {j \in 1..Len(Finished(w)) : t.outs[j] = "ok"}}
               /\ {x.uri : x \in Range(o.failed)} =
                      {t.attempts[i] : i \in {j \in 1..Len(Finished(w)) : t.outs[j] = "http"}}
               /\ {x.uri : x \in Range(o.undelivered)} =
                      {t.targets[i].uri : i \in (Len(Finished(w)) + 1)..Len(t.targets)}

\* a run interrupted in its second attempt: the stored Object has the first
\* target in delivered and the second still in undelivered
C31_Witness ==
    \E w \in Workers :
        /\ task[w].pc = "done"
        /\ task[w].resp = "raised"
        /\ task[w].outs = <<"ok", "fatal">>
        /\ Uris(store[task[w].id].delivered) = <<task[w].attempts[1]>>
        /\ Uris(store[task[w].id].undelivered) = <<task[w].attempts[2]>>

\* C32: when a delivery attempt raises an exception that is no transport or
\* protocol error, the run ends there: the targets after it are not attempted,
\* the stored Object has no terminal status, and its undelivered list holds
\* the failing target and every target after it, wherever in the order the
\* failing target is.
C32_FatalLeavesUndelivered ==
    \A w \in Workers :
        LET t == task[w] IN
        (t.outs # <<>> /\ t.outs[Len(t.outs)] = "fatal") =>
            /\ t.pc = "done"
            /\ t.resp = "raised"
            /\ t.id \in DOMAIN store
            /\ store[t.id].status = "in progress"
            /\ {x.uri : x \in Range(store[t.id].undelivered)} =
                   {t.targets[i].uri : i \in Len(t.attempts)..Len(t.targets)}

\* the references of the page of worker w's task that are fetched
Fetched(w) ==
    IF task[w].fetched = "ok" THEN Range(RefsOf(SourceType(w))) \ Blocklisted ELSE {}

\* C33: a reference that has no inbox of its own and no actor or attributedTo
\* that leads to one is dropped alone: when no fetch of a reference fails, the
\* resolution does not fail and the inboxes of the other references are
\* among the targets.
C33_UnresolvableDropped ==
    \A w \in Workers :
        (/\ calls[w].pc = "fetched"
         /\ \A r \in Fetched(w) : calls[w].fr[r] # "error"
         /\ \E r \in Fetched(w) : calls[w].fr[r] \in {"noinbox", "noactor"}) =>
            /\ task[w].resp \notin {"304", "raise"}
            /\ {RemoteInbox(r) : r \in {x \in Fetched(w) : calls[w].fr[x] = "inbox"}}
                  \subseteq InboxUris(task[w].targets)

C35_CursorPages ==
    \A c \in Workers :
       (calls[c].pc = "returned" /\ calls[c].resp = "ok") =>
          LET r == {calls[c].results[k] : k \in 1..Len(calls[c].results)}
              matched == QueryFor(edges, calls[c].collection, TheUser)
              later == {i \in matched : edges[i].updated >= calls[c].after.t}
              older == {i \in matched : edges[i].updated < calls[c].before.t}
          IN
          /\ \A k \in 1..(Len(calls[c].results) - 1) :
                edges[calls[c].results[k]].updated >= edges[calls[c].results[k + 1]].updated
          /\ calls[c].after.kind = "iso" =>
                /\ r \subseteq later
                /\ Cardinality(r) = IF Cardinality(later) > PAGE_SIZE
                                    THEN PAGE_SIZE ELSE Cardinality(later)
                /\ \A x \in r, y \in later \ r : edges[x].updated <= edges[y].updated
          /\ calls[c].before.kind = "iso" =>
                /\ r \subseteq older
                /\ Cardinality(r) = IF Cardinality(older) > PAGE_SIZE
                                    THEN PAGE_SIZE ELSE Cardinality(older)
                /\ \A x \in r, y \in older \ r : edges[x].updated >= edges[y].updated

\* C40: a client that starts at the first page of a collection and follows
\* the before cursor of each page until a page has none is shown no edge
\* twice and, at the end, every active edge of the collection, also when
\* edges have the same updated.
C40_TraversalComplete ==
    \A c \in Workers :
       (calls[c].pc = "returned" /\ calls[c].resp = "ok"
        /\ calls[c].start = <<NoParam, NoParam>>) =>
          LET visited == calls[c].shown \o calls[c].results IN
          /\ NoDuplicates(visited)
          /\ calls[c].new_before = NoParam =>
                Range(visited) = QueryFor(edges, calls[c].collection, TheUser)

C37_CacheHoldsSnapshot ==
    /\ \A id \in DOMAIN store :
          /\ id \in DOMAIN objects_cache
          /\ objects_cache[id] = [as1 |-> store[id].as1, labels |-> store[id].labels,
                                  mf2 |-> store[id].mf2, updated |-> store[id].updated]

\* C38: a stored Object has an expiry, its updated time plus 90 days, exactly
\* if its type is post, update, delete, accept, reject or undo; with any other
\* type, or with no type, it has none.
C38_ExpireOnlyEphemeral ==
    \A id \in DOMAIN store :
        LET o == store[id] IN
        IF o.type \in {"post", "update", "delete", "accept", "reject", "undo"}
        THEN o.expire = o.updated + 90
        ELSE o.expire = NoTime

====
